---- MODULE Spec2Model ----
(***************************************************************************)
(* A model of the request/resolution layer of adocli: the command          *)
(* handlers of cmd/ (work items, pull requests), the API operations of     *)
(* internal/api and its transport (do, doRaw, decodeOrClose).              *)
(*                                                                         *)
(* Text is modelled as a sequence of tokens: a token is a single           *)
(* character of user or server data, or a chunk of a literal of the        *)
(* source ("git/repositories/").  The delimiters the code's parsers look   *)
(* for ("?", "&", "=", ",") are always tokens of their own.                *)
(***************************************************************************)
EXTENDS Integers, Sequences, FiniteSets, TLC

VARIABLES
    organization,   \* viper "organization"
    cfgProject,     \* viper "project"
    cfgOutputFormat,\* viper "output_format"
    cfgExists,      \* whether the configuration file exists
    keyring,        \* the OS keyring entry adocli/pat
    lastAuth,       \* history: the auth command that last succeeded
    jsonOutput,     \* --json
    plainOutput,    \* --plain
    pc,             \* position of the running command handler
    cmd,            \* the command line: name, positional argument, flags
    client,         \* the *api.Client of this invocation
    local,          \* the handler's local variables
    calls,          \* requests handed to HTTP.Do, in order
    responses,      \* responses HTTP.Do returned, with what became of them
    stdout,         \* what was written to os.Stdout
    stderr,         \* what was written to os.Stderr
    err,            \* the error RunE returned
    exitCode        \* the process exit status

vars == <<organization, cfgProject, cfgOutputFormat, cfgExists, keyring,
          lastAuth, jsonOutput, plainOutput, pc, cmd, client, local, calls, responses, stdout,
          stderr, err, exitCode>>

(***************************************************************************)
(* Bounds of the model.                                                    *)
(***************************************************************************)
MaxRefs == 2        \* work item references one WIQL answer holds, at most
MaxTop == 2         \* largest --top tried

(***************************************************************************)
(* Text helpers.                                                           *)
(***************************************************************************)
Empty == << >>

\* strings.Contains(s, sub)
Contains(s, sub) ==
    \E i \in 0..(Len(s) - Len(sub)) :
        \A j \in 1..Len(sub) : s[i + j] = sub[j]

\* number of times token t occurs in s
Count(s, t) == Cardinality({i \in 1..Len(s) : s[i] = t})

\* positions of token t in s
Positions(s, t) == {i \in 1..Len(s) : s[i] = t}

Min(S) == CHOOSE x \in S : \A y \in S : x <= y

\* strings.TrimSuffix(s, suffix)
TrimSuffix(s, suffix) ==
    IF Len(s) >= Len(suffix)
       /\ SubSeq(s, Len(s) - Len(suffix) + 1, Len(s)) = suffix
    THEN SubSeq(s, 1, Len(s) - Len(suffix))
    ELSE s

\* strings.Join(elems, sep), elems a sequence of texts
RECURSIVE Join(_, _)
Join(elems, sep) ==
    IF elems = << >> THEN << >>
    ELSE IF Len(elems) = 1 THEN elems[1]
    ELSE elems[1] \o sep \o Join(Tail(elems), sep)

Digits == <<"0", "1", "2", "3", "4", "5", "6", "7", "8", "9">>

DigitVal(t) == (CHOOSE i \in 1..10 : Digits[i] = t) - 1

IsDigit(t) == \E i \in 1..10 : Digits[i] = t

\* decimal digits of a natural number
RECURSIVE NatDigits(_)
NatDigits(n) ==
    IF n < 10 THEN <<Digits[n + 1]>>
    ELSE NatDigits(n \div 10) \o <<Digits[(n % 10) + 1]>>

\* strconv.Itoa, and the %d verb of fmt
Itoa(n) == IF n < 0 THEN <<"-">> \o NatDigits(0 - n) ELSE NatDigits(n)

RECURSIVE DigitsVal(_, _)
DigitsVal(s, acc) ==
    IF s = << >> THEN acc
    ELSE DigitsVal(Tail(s), acc * 10 + DigitVal(Head(s)))

\* strconv.Atoi: an optional sign, then at least one digit, nothing else
Atoi(s) ==
    LET signed == s # << >> /\ Head(s) \in {"+", "-"}
        body   == IF signed THEN Tail(s) ELSE s
        ok     == body # << >> /\ \A i \in 1..Len(body) : IsDigit(body[i])
        mag    == IF ok THEN DigitsVal(body, 0) ELSE 0
    IN [ok  |-> ok,
        val |-> IF signed /\ Head(s) = "-" THEN 0 - mag ELSE mag]

(***************************************************************************)
(* net/url: the parts of url.Parse, URL.Query, Values.Set, Values.Encode   *)
(* and URL.String the transport relies on.                                 *)
(***************************************************************************)
\* strings.Split(s, sep) for a one-token separator
RECURSIVE Split(_, _)
Split(s, sep) ==
    IF Positions(s, sep) = {} THEN <<s>>
    ELSE LET i == Min(Positions(s, sep))
         IN <<SubSeq(s, 1, i - 1)>> \o Split(SubSeq(s, i + 1, Len(s)), sep)

\* the characters url.QueryEscape rewrites, with what it writes for them
EscapedChars == {",", "$", "'", "@", " ", "/", "=", "&", "?", ";"}

EscapeChar(t) ==
    CASE t = "," -> "%2C"
      [] t = "$" -> "%24"
      [] t = "'" -> "%27"
      [] t = "@" -> "%40"
      [] t = " " -> "+"
      [] t = "/" -> "%2F"
      [] t = "=" -> "%3D"
      [] t = "&" -> "%26"
      [] t = "?" -> "%3F"
      [] t = ";" -> "%3B"
      [] OTHER   -> t

UnescapeChar(t) ==
    IF \E c \in EscapedChars : EscapeChar(c) = t
    THEN CHOOSE c \in EscapedChars : EscapeChar(c) = t
    ELSE t

\* url.QueryEscape
QueryEscape(s) == [i \in 1..Len(s) |-> EscapeChar(s[i])]

\* url.QueryUnescape
QueryUnescape(s) == [i \in 1..Len(s) |-> UnescapeChar(s[i])]

\* url.Parse: the text before the first "?" and the raw query after it
ParseURL(raw) ==
    IF Positions(raw, "?") = {} THEN [Path |-> raw, RawQuery |-> Empty]
    ELSE LET i == Min(Positions(raw, "?"))
         IN [Path     |-> SubSeq(raw, 1, i - 1),
             RawQuery |-> SubSeq(raw, i + 1, Len(raw))]

\* URL.String
URLString(u) ==
    IF u.RawQuery = Empty THEN u.Path ELSE u.Path \o <<"?">> \o u.RawQuery

\* url.Values is a map from key to the list of its values
NoValues == [k \in {} |-> << >>]

\* Values.Add
ValuesAdd(m, k, v) ==
    IF k \in DOMAIN m
    THEN [m EXCEPT ![k] = Append(@, v)]
    ELSE [x \in DOMAIN m \cup {k} |-> IF x = k THEN <<v>> ELSE m[x]]

\* Values.Set
ValuesSet(m, k, v) ==
    [x \in DOMAIN m \cup {k} |-> IF x = k THEN <<v>> ELSE m[x]]

\* url.ParseQuery over the "&"-separated pieces; URL.Query drops its error.
\* A piece holding ";" is rejected, an empty piece is skipped.
RECURSIVE ParsePieces(_, _)
ParsePieces(pieces, m) ==
    IF pieces = << >> THEN m
    ELSE LET p  == Head(pieces)
             eq == Positions(p, "=")
             k  == IF eq = {} THEN p ELSE SubSeq(p, 1, Min(eq) - 1)
             v  == IF eq = {} THEN Empty ELSE SubSeq(p, Min(eq) + 1, Len(p))
         IN IF p = Empty \/ Positions(p, ";") # {}
            THEN ParsePieces(Tail(pieces), m)
            ELSE ParsePieces(Tail(pieces),
                             ValuesAdd(m, QueryUnescape(k), QueryUnescape(v)))

\* URL.Query
ParseQuery(rawQuery) == ParsePieces(Split(rawQuery, "&"), NoValues)

\* the query keys the program uses, in the byte order sort.Strings gives
KeyOrder == << <<"$", "top">>, <<"api-version">>, <<"ids">>,
               <<"searchCriteria.creatorId">>, <<"searchCriteria.reviewerId">>,
               <<"searchCriteria.status">> >>

\* "key=value" for every value of one key
EncodeKey(k, vals) ==
    [i \in 1..Len(vals) |-> QueryEscape(k) \o <<"=">> \o QueryEscape(vals[i])]

RECURSIVE EncodeFrom(_, _)
EncodeFrom(m, i) ==
    IF i > Len(KeyOrder) THEN << >>
    ELSE (IF KeyOrder[i] \in DOMAIN m
          THEN EncodeKey(KeyOrder[i], m[KeyOrder[i]]) ELSE << >>)
         \o EncodeFrom(m, i + 1)

\* Values.Encode: keys sorted, pieces joined by "&"
Encode(m) == Join(EncodeFrom(m, 1), <<"&">>)

(***************************************************************************)
(* Errors.  kind "api" is a *api.Error (also when wrapped with %w); the    *)
(* other kinds are plain errors, named after the taxonomy of the           *)
(* specification.  msg is the text Error() returns.                        *)
(***************************************************************************)
NoError == [kind |-> "nil", StatusCode |-> 0, Body |-> Empty, msg |-> Empty]

\* fmt.Errorf(text) without a wrapped error
NewError(kind, text) ==
    [kind |-> kind, StatusCode |-> 0, Body |-> Empty, msg |-> text]

\* fmt.Errorf(prefix + ": %w", e)
Wrap(prefix, e) == [e EXCEPT !.msg = prefix \o <<": ">> \o @]

\* (*Error).Error
ErrorText(statusCode, body) ==
    <<"Azure DevOps API error (HTTP ">> \o Itoa(statusCode) \o <<"): ">> \o body

\* &Error{StatusCode: ..., Body: ...}
APIError(statusCode, body) ==
    [kind |-> "api", StatusCode |-> statusCode, Body |-> body,
     msg |-> ErrorText(statusCode, body)]

(***************************************************************************)
(* The client and its transport.                                           *)
(***************************************************************************)
defaultAPIVersion == <<"7.1">>

NoClient == [BaseURL |-> Empty, PAT |-> Empty, APIVersion |-> Empty]

\* api.NewClient
NewClient(org, pat) ==
    [BaseURL    |-> <<"https://dev.azure.com/">> \o org \o <<"/_apis">>,
     PAT        |-> pat,
     APIVersion |-> defaultAPIVersion]

\* Client.authHeader: "Basic " + base64(":" + PAT).  base64 is a bijection
\* and is left uninterpreted: the header is kept as its scheme and the text
\* it encodes.
authHeader(c) == [scheme |-> "Basic", userpass |-> <<":">> \o c.PAT]

\* Client.ProjectURL
ProjectURL(c, project, path) ==
    TrimSuffix(c.BaseURL, <<"/_apis">>) \o <<"/">> \o project
        \o <<"/_apis/">> \o path

NoBody == [nil |-> TRUE, json |-> Empty]

\* json.Marshal of a request body
JSONBody(v) == [nil |-> FALSE, json |-> v]

NoResp == [StatusCode |-> 0, Body |-> Empty, Valid |-> FALSE,
           Value |-> [none |-> TRUE]]

\* the request built from a fresh query: what the URL held is dropped
BuildRequest_DropQuery(c, mode, method, target, url, contentType, body) ==
    LET u == ParseURL(url)
        q == ValuesSet(NoValues, <<"api-version">>, c.APIVersion)
    IN [Mode          |-> mode,
        Method        |-> method,
        Target        |-> target,
        Path          |-> u.Path,
        RawQuery      |-> Encode(q),
        Authorization |-> authHeader(c),
        ContentType   |-> contentType,
        Body          |-> body]

\* http.NewRequest, the two headers and the api-version parameter, as do
\* and doRaw both write them
BuildRequest(c, mode, method, target, url, contentType, body) ==
    LET u == ParseURL(url)
        q == ValuesSet(ParseQuery(u.RawQuery), <<"api-version">>, c.APIVersion)
    IN [Mode          |-> mode,
        Method        |-> method,
        Target        |-> target,
        Path          |-> u.Path,
        RawQuery      |-> Encode(q),
        Authorization |-> authHeader(c),
        ContentType   |-> contentType,
        Body          |-> body]

\* c.HTTP.Do(req) with a second attempt after a failed one
RoundTrip_RetryOnce(req, net) ==
    IF net.fail
    THEN [sent |-> <<[req |-> req, failed |-> TRUE, status |-> 0],
                     [req |-> req, failed |-> TRUE, status |-> 0]>>,
          resp |-> NoResp,
          err  |-> NewError("transport",
                            <<"executing request: ", "connection refused">>)]
    ELSE [sent |-> <<[req |-> req, failed |-> FALSE,
                      status |-> net.resp.StatusCode]>>,
          resp |-> net.resp,
          err  |-> NoError]

\* c.HTTP.Do(req): net is what the network does with the one request.  The
\* request is logged with the outcome of its round trip.
RoundTrip(req, net) ==
    IF net.fail
    THEN [sent |-> <<[req |-> req, failed |-> TRUE, status |-> 0]>>,
          resp |-> NoResp,
          err  |-> NewError("transport",
                            <<"executing request: ", "connection refused">>)]
    ELSE [sent |-> <<[req |-> req, failed |-> FALSE,
                      status |-> net.resp.StatusCode]>>,
          resp |-> net.resp,
          err  |-> NoError]

\* Client.do: path is joined to the organisation-level base URL
do(c, method, path, body, net) ==
    RoundTrip(BuildRequest(c, "do", method, path,
                           c.BaseURL \o <<"/">> \o path,
                           "application/json", body), net)

\* Client.doRaw: rawURL is used as it is, with the caller's content type
doRaw(c, method, rawURL, contentType, body, net) ==
    RoundTrip(BuildRequest(c, "doRaw", method, rawURL, rawURL,
                           contentType, body), net)

\* decodeOrClose taking 400 itself for a success
decodeOrClose_Above400(resp, wantResult) ==
    IF resp.StatusCode > 400
    THEN [closed |-> 1, decoded |-> FALSE,
          err |-> APIError(resp.StatusCode, resp.Body)]
    ELSE IF wantResult
    THEN [closed |-> 1, decoded |-> TRUE,
          err |-> IF resp.Valid THEN NoError
                  ELSE NewError("decode", <<"invalid character">>)]
    ELSE [closed |-> 1, decoded |-> FALSE, err |-> NoError]

\* decodeOrClose closing the body on the paths that return no error only
decodeOrClose_CloseOnSuccess(resp, wantResult) ==
    IF resp.StatusCode >= 400
    THEN [closed |-> 0, decoded |-> FALSE,
          err |-> APIError(resp.StatusCode, resp.Body)]
    ELSE IF wantResult
    THEN [closed |-> IF resp.Valid THEN 1 ELSE 0, decoded |-> TRUE,
          err |-> IF resp.Valid THEN NoError
                  ELSE NewError("decode", <<"invalid character">>)]
    ELSE [closed |-> 1, decoded |-> FALSE, err |-> NoError]

\* decodeOrClose: what became of one response.  closed counts the calls of
\* resp.Body.Close (the deferred one runs on every return); decoded says
\* whether the body was handed to the JSON decoder.
decodeOrClose(resp, wantResult) ==
    IF resp.StatusCode >= 400
    THEN [closed |-> 1, decoded |-> FALSE,
          err |-> APIError(resp.StatusCode, resp.Body)]
    ELSE IF wantResult
    THEN [closed |-> 1, decoded |-> TRUE,
          err |-> IF resp.Valid THEN NoError
                  ELSE NewError("decode", <<"invalid character">>)]
    ELSE [closed |-> 1, decoded |-> FALSE, err |-> NoError]

\* the log entry of a response decodeOrClose has dealt with: the response,
\* whether the caller passed a result to decode into, and what came of it
Handled(resp, wantResult, d) ==
    [StatusCode |-> resp.StatusCode, Body |-> resp.Body, Valid |-> resp.Valid,
     Value |-> resp.Value, want |-> wantResult,
     closed |-> d.closed, decoded |-> d.decoded, err |-> d.err]

\* what an API operation hands back: the requests it sent, the responses it
\* got, its error and its decoded result
Finished(r, wantResult) ==
    IF r.err # NoError
    THEN [sent |-> r.sent, resps |-> << >>, err |-> r.err,
          value |-> NoResp.Value]
    ELSE LET d == decodeOrClose(r.resp, wantResult)
         IN [sent  |-> r.sent,
             resps |-> <<Handled(r.resp, wantResult, d)>>,
             err   |-> d.err,
             value |-> IF d.err = NoError /\ wantResult
                       THEN r.resp.Value ELSE NoResp.Value]

\* Client.Get
Get(c, path, net) == Finished(do(c, "GET", path, NoBody, net), TRUE)

\* Client.Post
Post(c, path, body, net) == Finished(do(c, "POST", path, JSONBody(body), net), TRUE)

\* Client.Patch
Patch(c, path, body, net) == Finished(do(c, "PATCH", path, JSONBody(body), net), TRUE)

(***************************************************************************)
(* API operations.  Each takes the client, its arguments and net, what the *)
(* network does with its round trip.                                       *)
(***************************************************************************)
JSONType == "application/json"

\* the patch document sent as plain JSON
PatchType_PlainJSON == "application/json"

PatchType == "application/json-patch+json"

\* Client.QueryByWiql
QueryByWiql(c, project, wiql, top, net) ==
    Finished(doRaw(c, "POST",
                   ProjectURL(c, project,
                              <<"wit/wiql", "?", "$", "top", "=">> \o Itoa(top)),
                   JSONType, JSONBody([query |-> wiql]), net), TRUE)

\* Client.GetWorkItem
GetWorkItem(c, project, id, net) ==
    Get(c, <<"wit/workitems/">> \o Itoa(id), net)

\* GetWorkItems sending its request whatever the number of ids
GetWorkItems_NoEmptyCheck(c, project, ids, net) ==
    Get(c, <<"wit/workitems", "?", "ids", "=">>
             \o Join([i \in 1..Len(ids) |-> Itoa(ids[i])], <<",">>), net)

\* Client.GetWorkItems
GetWorkItems(c, project, ids, net) ==
    IF Len(ids) = 0
    THEN [sent |-> << >>, resps |-> << >>, err |-> NoError,
          value |-> [items |-> << >>]]
    ELSE Get(c, <<"wit/workitems", "?", "ids", "=">>
                  \o Join([i \in 1..Len(ids) |-> Itoa(ids[i])], <<",">>), net)

\* Client.CreateWorkItem
CreateWorkItem(c, project, workItemType, fields, net) ==
    Finished(doRaw(c, "POST",
                   ProjectURL(c, project,
                              <<"wit/workitems/", "$">> \o workItemType),
                   PatchType, JSONBody(fields), net), TRUE)

\* Client.UpdateWorkItem
UpdateWorkItem(c, project, id, fields, net) ==
    Finished(doRaw(c, "PATCH",
                   c.BaseURL \o <<"/wit/workitems/">> \o Itoa(id),
                   PatchType, JSONBody(fields), net), TRUE)

\* Client.ListRepositories
ListRepositories(c, project, net) ==
    Finished(doRaw(c, "GET", ProjectURL(c, project, <<"git/repositories">>),
                   JSONType, NoBody, net), TRUE)

\* the search criteria ListPullRequests sets on the parsed query, in turn
PullRequestCriteria(q0, query) ==
    LET q1 == IF query.Status # Empty
              THEN ValuesSet(q0, <<"searchCriteria.status">>, query.Status)
              ELSE q0
        q2 == IF query.Creator # Empty
              THEN ValuesSet(q1, <<"searchCriteria.creatorId">>, query.Creator)
              ELSE q1
        q3 == IF query.Reviewer # Empty
              THEN ValuesSet(q2, <<"searchCriteria.reviewerId">>, query.Reviewer)
              ELSE q2
    IN IF query.Top > 0
       THEN ValuesSet(q3, <<"$", "top">>, Itoa(query.Top))
       ELSE q3

\* the listing URL of the project's pull requests, whatever the repository
ListPullRequestsURL_ProjectWide(c, project, repoID, query) ==
    LET u == ParseURL(ProjectURL(c, project, <<"git/pullrequests">>))
        q == PullRequestCriteria(ParseQuery(u.RawQuery), query)
    IN URLString([u EXCEPT !.RawQuery = Encode(q)])

\* the URL ListPullRequests hands to doRaw
ListPullRequestsURL(c, project, repoID, query) ==
    LET path == IF repoID # Empty
                THEN <<"git/repositories/">> \o repoID \o <<"/pullrequests">>
                ELSE <<"git/pullrequests">>
        u    == ParseURL(ProjectURL(c, project, path))
        q    == PullRequestCriteria(ParseQuery(u.RawQuery), query)
    IN URLString([u EXCEPT !.RawQuery = Encode(q)])

\* Client.ListPullRequests
ListPullRequests(c, project, repoID, query, net) ==
    Finished(doRaw(c, "GET", ListPullRequestsURL(c, project, repoID, query),
                   JSONType, NoBody, net), TRUE)

\* Client.GetPullRequest
GetPullRequest(c, project, id, net) ==
    Finished(doRaw(c, "GET",
                   ProjectURL(c, project, <<"git/pullrequests/">> \o Itoa(id)),
                   JSONType, NoBody, net), TRUE)

\* Client.CreatePullRequest
CreatePullRequest(c, project, repoID, input, net) ==
    Finished(doRaw(c, "POST",
                   ProjectURL(c, project,
                              <<"git/repositories/">> \o repoID
                                  \o <<"/pullrequests">>),
                   JSONType, JSONBody(input), net), TRUE)

\* VotePath with the repository and the reviewer in each other's place
VotePath_Swapped(repoID, prID, reviewerID) ==
    <<"git/repositories/">> \o reviewerID \o <<"/pullrequests/">> \o Itoa(prID)
        \o <<"/reviewers/">> \o repoID

\* the path VotePullRequest formats
VotePath(repoID, prID, reviewerID) ==
    <<"git/repositories/">> \o repoID \o <<"/pullrequests/">> \o Itoa(prID)
        \o <<"/reviewers/">> \o reviewerID

\* Client.VotePullRequest: decodeOrClose is given no result to decode into
VotePullRequest(c, project, repoID, prID, reviewerID, vote, net) ==
    Finished(doRaw(c, "PUT",
                   ProjectURL(c, project, VotePath(repoID, prID, reviewerID)),
                   JSONType, JSONBody([vote |-> vote]), net), FALSE)

\* GetConnectionData handing back its zero value, and no error, on a failure
GetConnectionData_SwallowError(c, net) ==
    LET r == Get(c, <<"connectionData">>, net)
    IN IF r.err # NoError
       THEN [r EXCEPT !.err = NoError,
                      !.value = [conn |-> [AuthenticatedUserID |-> Empty]]]
       ELSE r

\* Client.GetConnectionData
GetConnectionData(c, net) == Get(c, <<"connectionData">>, net)

(***************************************************************************)
(* What the handlers share.                                                *)
(***************************************************************************)
\* cmd.GetPAT: keyring.Get fails when no entry is stored
GetPAT ==
    IF keyring.found
    THEN [pat |-> keyring.pat, err |-> NoError]
    ELSE [pat |-> Empty,
          err |-> NewError("config",
                           <<"no PAT found in keyring (run 'ado auth login'): ",
                             "secret not found in keyring">>)]

\* newAPIClient
newAPIClient ==
    IF organization = Empty
    THEN [client |-> NoClient,
          err |-> NewError("config",
                   <<"organization not configured (run 'ado config set organization <org>')">>)]
    ELSE IF GetPAT.err # NoError
    THEN [client |-> NoClient, err |-> GetPAT.err]
    ELSE [client |-> NewClient(organization, GetPAT.pat), err |-> NoError]

\* resolveProject without the check of the configured project
resolveProject_NoCheck(flag) ==
    [project |-> IF flag # Empty THEN flag ELSE cfgProject, err |-> NoError]

\* resolveProject: the --project flag, else the configured project
resolveProject(flag) ==
    IF flag # Empty THEN [project |-> flag, err |-> NoError]
    ELSE IF cfgProject = Empty
    THEN [project |-> Empty,
          err |-> NewError("config",
                   <<"project not specified (use --project or 'ado config set project <name>')">>)]
    ELSE [project |-> cfgProject, err |-> NoError]

\* newAPIClient, then resolveProject, as every service command calls them
Prelude(flag) ==
    IF newAPIClient.err # NoError
    THEN [client |-> NoClient, project |-> Empty, err |-> newAPIClient.err]
    ELSE [client  |-> newAPIClient.client,
          project |-> resolveProject(flag).project,
          err     |-> resolveProject(flag).err]

\* OutputFormat asking the configuration before the flags
OutputFormat_ConfigFirst ==
    IF cfgOutputFormat # "" THEN cfgOutputFormat
    ELSE IF jsonOutput THEN "json"
    ELSE IF plainOutput THEN "plain"
    ELSE "table"

\* OutputFormat: --json, then --plain, then the configuration, then table
OutputFormat ==
    IF jsonOutput THEN "json"
    ELSE IF plainOutput THEN "plain"
    ELSE IF cfgOutputFormat # "" THEN cfgOutputFormat
    ELSE "table"

(***************************************************************************)
(* Inputs: command lines, and what the service answers.                    *)
(***************************************************************************)
Orgs == {Empty, <<"o", "r", "g">>}

\* the --project flag: left out, or a name with a quote in it
Projects == {Empty, <<"P", "'">>}

CfgProjects == {Empty, <<"Q">>}

CfgFormats == {"", "json"}

\* the token stored: one of six characters, one of three
PATs == {<<"s", "e", "c", "r", "e", "t">>, <<"k", "e", "y">>}

Keyrings == {[found |-> FALSE, pat |-> Empty]}
            \cup {[found |-> TRUE, pat |-> p] : p \in PATs}

IdArgs == {<<"4", "2">>, <<"-", "7">>, <<"4", "x">>}

Texts == {Empty, <<"a">>}

RepoIDs == {<<"R1">>, <<"R2">>}

UserIDs == {<<"U9">>, <<"U8">>}

OkStatus == {200, 399}

\* the error answers of the service: a status with the text of its body
ErrAnswers == {<<400, Empty>>, <<404, <<"not found">> >>}

\* the responses of the service: an error status with its body text, or a
\* success status with a body that is valid JSON for one of vals, or is not
Responses(vals) ==
    {[StatusCode |-> a[1], Body |-> a[2], Valid |-> FALSE,
      Value |-> NoResp.Value] : a \in ErrAnswers}
    \cup {[StatusCode |-> st, Body |-> <<"{json}">>, Valid |-> TRUE, Value |-> v] :
        st \in OkStatus, v \in vals}
    \cup {[StatusCode |-> st, Body |-> <<"<html>">>, Valid |-> FALSE,
           Value |-> NoResp.Value] : st \in OkStatus}

\* what the network does with one request: fail, or deliver a response
Net(vals) ==
    {[fail |-> TRUE, resp |-> NoResp]}
    \cup {[fail |-> FALSE, resp |-> r] : r \in Responses(vals)}

(***************************************************************************)
(* The process: one command per invocation.                                *)
(***************************************************************************)
NoCmd == [name |-> "none"]

NoLocal == [none |-> TRUE]

\* the configuration file and the keyring as a process finds them: every
\* combination of organization, project and credential being set or not,
\* with no output format configured, and the complete ones with one
Configs ==
    {[organization |-> o, project |-> p, output_format |-> f, keyring |-> k] :
        o \in Orgs, p \in CfgProjects, f \in CfgFormats, k \in Keyrings}

Init ==
    /\ \E cfg \in Configs :
         /\ cfg.output_format # "" =>
                cfg.organization # Empty /\ cfg.project # Empty /\ cfg.keyring.found
         /\ organization = cfg.organization
         /\ cfgProject = cfg.project
         /\ cfgOutputFormat = cfg.output_format
         /\ keyring = cfg.keyring
         /\ lastAuth = IF cfg.keyring.found THEN "login" ELSE "none"
         \* a file that holds a value exists; one that holds none may be
         \* an empty object, or not be there
         /\ cfgExists \in BOOLEAN
         /\ (cfg.organization # Empty \/ cfg.project # Empty
                \/ cfg.output_format # "") => cfgExists
    /\ jsonOutput = FALSE
    /\ plainOutput = FALSE
    /\ pc = "idle"
    /\ cmd = NoCmd
    /\ client = NoClient
    /\ local = NoLocal
    /\ calls = << >>
    /\ responses = << >>
    /\ stdout = << >>
    /\ stderr = << >>
    /\ err = NoError
    /\ exitCode = -1

\* the configuration file
ConfigFile == <<organization, cfgProject, cfgOutputFormat, cfgExists>>

\* what outlives a process
Persistent == <<ConfigFile, keyring, lastAuth>>

\* cobra parses the persistent flags --json and --plain before RunE runs
ParseGlobalFlags ==
    /\ jsonOutput' \in BOOLEAN
    /\ plainOutput' \in BOOLEAN

\* Execute exiting with status 0 whatever RunE returned
Execute_AlwaysZero(e) == 0

\* Execute: rootCmd.Execute hands back the error of RunE, and the process
\* exits with status 1 when there is one
Execute(e) == IF e # NoError THEN 1 ELSE 0

\* cobra prints the error RunE returned on stderr
ErrorPrint(e) == IF e # NoError THEN << <<"Error: ">> \o e.msg >> ELSE << >>

\* RunE returns e, having written out and errOut, and the process exits
Return(e, out, errOut) ==
    /\ err' = e
    /\ pc' = "exited"
    /\ exitCode' = Execute(e)
    /\ stdout' = stdout \o out
    /\ stderr' = stderr \o errOut \o ErrorPrint(e)

\* RunE returns e before any request was made
Fail(e) ==
    /\ Return(e, << >>, << >>)
    /\ UNCHANGED <<calls, responses>>

\* the requests and responses of an API operation enter the logs
Log(r) ==
    /\ calls' = calls \o r.sent
    /\ responses' = responses \o r.resps

\* the handler goes on to its next step
Goto(next) ==
    /\ pc' = next
    /\ UNCHANGED <<err, stdout, stderr, exitCode>>

\* the next invocation is a new process
NewProcess ==
    /\ pc = "exited"
    /\ pc' = "idle"
    /\ jsonOutput' = FALSE
    /\ plainOutput' = FALSE
    /\ cmd' = NoCmd
    /\ client' = NoClient
    /\ local' = NoLocal
    /\ calls' = << >>
    /\ responses' = << >>
    /\ stdout' = << >>
    /\ stderr' = << >>
    /\ err' = NoError
    /\ exitCode' = -1
    /\ UNCHANGED Persistent

(***************************************************************************)
(* ado pr approve / ado pr reject                                          *)
(***************************************************************************)
PullRequests(id) ==
    {[ID |-> id, Title |-> <<"t">>, RepositoryID |-> r] : r \in RepoIDs}

ConnectionDatas == {[AuthenticatedUserID |-> u] : u \in UserIDs}

\* what votePR prints once the vote is cast
VoteOutput(id, vote, label) ==
    CASE OutputFormat = "json" ->
           <<"{\"pullRequestId\": ">> \o Itoa(id) \o <<", \"status\": \"">>
               \o label \o <<"\", \"vote\": ">> \o Itoa(vote) \o <<"}\n">>
      [] OutputFormat = "plain" -> Itoa(id) \o <<"\t">> \o label \o <<"\n">>
      [] OTHER -> label \o <<" pull request ">> \o Itoa(id) \o <<"\n">>

\* votePR up to its first request: the id argument, the client, the project
votePR(name, vote, label) ==
    /\ pc = "idle"
    /\ ParseGlobalFlags
    /\ \E arg \in IdArgs, flag \in Projects :
         /\ cmd' = [name |-> name, arg |-> arg, project |-> flag,
                    vote |-> vote, label |-> label]
         /\ IF ~Atoi(arg).ok
            THEN /\ Fail(NewError("validation",
                                  <<"invalid pull request ID: ">> \o arg))
                 /\ UNCHANGED <<client, local>>
            ELSE IF Prelude(flag).err # NoError
            THEN /\ Fail(Prelude(flag).err)
                 /\ client' = Prelude(flag).client
                 /\ UNCHANGED local
            ELSE /\ Goto("vote_pr")
                 /\ client' = Prelude(flag).client
                 /\ local' = [id |-> Atoi(arg).val,
                              project |-> Prelude(flag).project]
                 /\ UNCHANGED <<calls, responses>>
    /\ UNCHANGED Persistent

\* runPRApprove
runPRApprove == votePR("pr approve", 10, <<"Approved">>)

\* runPRReject
runPRReject == votePR("pr reject", -10, <<"Rejected">>)

\* votePR: client.GetPullRequest, which leaves another API version in the
\* client it was called on
votePR_GetPullRequest_SetsVersion ==
    /\ pc = "vote_pr"
    /\ \E net \in Net({[pr |-> v] : v \in PullRequests(local.id)}) :
         LET r == GetPullRequest(client, local.project, local.id, net)
         IN /\ Log(r)
            /\ IF r.err # NoError
               THEN /\ Return(Wrap(<<"fetching pull request ">> \o Itoa(local.id),
                                   r.err), << >>, << >>)
                    /\ UNCHANGED local
               ELSE /\ Goto("vote_conn")
                    /\ local' = [id |-> local.id, project |-> local.project,
                                 pr |-> r.value.pr]
    /\ client' = [client EXCEPT !.APIVersion = <<"7.0">>]
    /\ UNCHANGED <<Persistent, jsonOutput, plainOutput, cmd>>

\* votePR: client.GetPullRequest, to find the repository id
votePR_GetPullRequest ==
    /\ pc = "vote_pr"
    /\ \E net \in Net({[pr |-> v] : v \in PullRequests(local.id)}) :
         LET r == GetPullRequest(client, local.project, local.id, net)
         IN /\ Log(r)
            /\ IF r.err # NoError
               THEN /\ Return(Wrap(<<"fetching pull request ">> \o Itoa(local.id),
                                   r.err), << >>, << >>)
                    /\ UNCHANGED local
               ELSE /\ Goto("vote_conn")
                    /\ local' = [id |-> local.id, project |-> local.project,
                                 pr |-> r.value.pr]
    /\ UNCHANGED <<Persistent, jsonOutput, plainOutput, cmd, client>>

\* votePR: client.GetConnectionData, to find the authenticated user's id
votePR_GetConnectionData ==
    /\ pc = "vote_conn"
    /\ \E net \in Net({[conn |-> v] : v \in ConnectionDatas}) :
         LET r == GetConnectionData(client, net)
         IN /\ Log(r)
            /\ IF r.err # NoError
               THEN /\ Return(Wrap(<<"getting authenticated user">>, r.err), << >>, << >>)
                    /\ UNCHANGED local
               ELSE /\ Goto("vote_put")
                    /\ local' = [id |-> local.id, project |-> local.project,
                                 pr |-> local.pr, conn |-> r.value.conn]
    /\ UNCHANGED <<Persistent, jsonOutput, plainOutput, cmd, client>>

\* votePR: client.VotePullRequest, then the output
votePR_VotePullRequest ==
    /\ pc = "vote_put"
    /\ \E net \in Net({[vote |-> cmd.vote]}) :
         LET r == VotePullRequest(client, local.project, local.pr.RepositoryID,
                                  local.id, local.conn.AuthenticatedUserID,
                                  cmd.vote, net)
         IN /\ Log(r)
            /\ IF r.err # NoError
               THEN /\ Return(Wrap(<<"voting on pull request ">> \o Itoa(local.id),
                                   r.err), << >>, << >>)
               ELSE /\ Return(NoError,
                           <<VoteOutput(local.id, cmd.vote, cmd.label)>>, << >>)
    /\ UNCHANGED <<Persistent, jsonOutput, plainOutput, cmd, client, local>>

(***************************************************************************)
(* ado workitem list / show / create / update                              *)
(***************************************************************************)
\* escapeWIQL leaving the text as it is
escapeWIQL_Identity(s) == s

\* escapeWIQL: every single quote is doubled
RECURSIVE escapeWIQL(_)
escapeWIQL(s) ==
    IF s = << >> THEN << >>
    ELSE (IF Head(s) = "'" THEN <<"'", "'">> ELSE <<Head(s)>>)
         \o escapeWIQL(Tail(s))

\* a quoted, escaped literal compared with a field
Equals(field, value) == <<field, " = ", "'">> \o escapeWIQL(value) \o <<"'">>

\* the conditions with @me quoted and escaped like any other assignee
Conditions_MeQuoted(project, wiType, state, assignedTo) ==
    <<Equals("[System.TeamProject]", project)>>
    \o (IF wiType # Empty
        THEN <<Equals("[System.WorkItemType]", wiType)>> ELSE << >>)
    \o (IF state # Empty
        THEN <<Equals("[System.State]", state)>> ELSE << >>)
    \o (IF assignedTo # Empty
        THEN <<Equals("[System.AssignedTo]", assignedTo)>>
        ELSE << >>)

\* the conditions with the work item type compared even when it is empty
Conditions_TypeAlways(project, wiType, state, assignedTo) ==
    <<Equals("[System.TeamProject]", project)>>
    \o <<Equals("[System.WorkItemType]", wiType)>>
    \o (IF state # Empty
        THEN <<Equals("[System.State]", state)>> ELSE << >>)
    \o (IF assignedTo # Empty
        THEN (IF assignedTo = <<"@me">>
              THEN << <<"[System.AssignedTo]", " = ", "@me">> >>
              ELSE <<Equals("[System.AssignedTo]", assignedTo)>>)
        ELSE << >>)

\* the conditions buildWIQL collects, in the order it appends them
Conditions(project, wiType, state, assignedTo) ==
    <<Equals("[System.TeamProject]", project)>>
    \o (IF wiType # Empty
        THEN <<Equals("[System.WorkItemType]", wiType)>> ELSE << >>)
    \o (IF state # Empty
        THEN <<Equals("[System.State]", state)>> ELSE << >>)
    \o (IF assignedTo # Empty
        THEN (IF assignedTo = <<"@me">>
              THEN << <<"[System.AssignedTo]", " = ", "@me">> >>
              ELSE <<Equals("[System.AssignedTo]", assignedTo)>>)
        ELSE << >>)

\* buildWIQL
buildWIQL(project, wiType, state, assignedTo) ==
    <<"SELECT [System.Id], [System.Title], [System.State], [System.WorkItemType], [System.AssignedTo] FROM WorkItems">>
    \o <<" WHERE ">>
    \o Join(Conditions(project, wiType, state, assignedTo), <<" AND ">>)
    \o <<" ORDER BY [System.ChangedDate] DESC">>

PatchField(op, path, value) == [Op |-> op, Path |-> path, Value |-> value]

\* one operation for a field, given or not
Optional_Always(op, path, value) == <<PatchField(op, path, value)>>

\* one operation for a field that was given, none for an empty one
Optional(op, path, value) ==
    IF value # Empty THEN <<PatchField(op, path, value)>> ELSE << >>

\* the patch document runWorkitemCreate builds
CreateFields(title, desc, assignedTo, areaPath, iterationPath) ==
    <<PatchField("add", <<"/fields/System.Title">>, title)>>
    \o Optional("add", <<"/fields/System.Description">>, desc)
    \o Optional("add", <<"/fields/System.AssignedTo">>, assignedTo)
    \o Optional("add", <<"/fields/System.AreaPath">>, areaPath)
    \o Optional("add", <<"/fields/System.IterationPath">>, iterationPath)

\* the patch document runWorkitemUpdate builds
UpdateFields(title, state, assignedTo) ==
    Optional("replace", <<"/fields/System.Title">>, title)
    \o Optional("replace", <<"/fields/System.State">>, state)
    \o Optional("replace", <<"/fields/System.AssignedTo">>, assignedTo)

\* the work item the service answers with
WorkItems(id) == {[ID |-> id, Title |-> <<"t">>]}

\* the references a WIQL answer holds: none, or up to MaxRefs of them
RefLists == {[i \in 1..n |-> 10 - i] : n \in 0..MaxRefs}

Tops == 0..MaxTop

\* a filter left out, or one whose text holds a quote and the word AND
Filters == {Empty, <<"B", "'", " AND ", "s">>}

\* the --assigned-to flag: left out, the current-user macro, or a name that
\* begins like the macro and ends in two quotes
Assignees == {Empty, <<"@me">>, <<"@me", "'", "'">>}

\* one work item in the format chosen; column padding and the cut of long
\* titles are left out
WorkItemLine(verb, wi) ==
    CASE OutputFormat = "json" ->
           <<"{\"id\": ">> \o Itoa(wi.ID) \o <<", \"title\": \"">> \o wi.Title
               \o <<"\"}\n">>
      [] OutputFormat = "plain" -> Itoa(wi.ID) \o <<"\t">> \o wi.Title \o <<"\n">>
      [] OTHER -> verb \o Itoa(wi.ID) \o <<": ">> \o wi.Title \o <<"\n">>

\* runWorkitemUpdate without the check of the patch's length
UpdateValidation_Never(fields) == NoError

\* runWorkitemUpdate: an update of no field is refused
UpdateValidation(fields) ==
    IF Len(fields) = 0
    THEN NewError("validation",
                  <<"no fields to update (use --title, --state, or --assigned-to)">>)
    ELSE NoError

\* runWorkitemCreate checking --type only
CreateValidation_TypeOnly(wiType, title) ==
    IF wiType = Empty THEN NewError("validation", <<"--type is required">>)
    ELSE NoError

\* runWorkitemCreate: --type and --title are required
CreateValidation(wiType, title) ==
    IF wiType = Empty THEN NewError("validation", <<"--type is required">>)
    ELSE IF title = Empty THEN NewError("validation", <<"--title is required">>)
    ELSE NoError

\* runWorkitemUpdate up to its request
runWorkitemUpdate ==
    /\ pc = "idle"
    /\ ParseGlobalFlags
    /\ \E arg \in IdArgs, flag \in Projects,
          title \in Texts, state \in Texts, assignedTo \in Texts :
         /\ cmd' = [name |-> "workitem update", arg |-> arg, project |-> flag,
                    title |-> title, state |-> state, assignedTo |-> assignedTo]
         /\ IF ~Atoi(arg).ok
            THEN /\ Fail(NewError("validation",
                                  <<"invalid work item ID: ">> \o arg))
                 /\ UNCHANGED <<client, local>>
            ELSE IF Prelude(flag).err # NoError
            THEN /\ Fail(Prelude(flag).err)
                 /\ client' = Prelude(flag).client
                 /\ UNCHANGED local
            ELSE IF UpdateValidation(UpdateFields(title, state, assignedTo)) # NoError
            THEN /\ Fail(UpdateValidation(UpdateFields(title, state, assignedTo)))
                 /\ client' = Prelude(flag).client
                 /\ UNCHANGED local
            ELSE /\ Goto("wiUpdate_patch")
                 /\ client' = Prelude(flag).client
                 /\ local' = [id |-> Atoi(arg).val,
                              project |-> Prelude(flag).project,
                              fields |-> UpdateFields(title, state, assignedTo)]
                 /\ UNCHANGED <<calls, responses>>
    /\ UNCHANGED Persistent

\* runWorkitemUpdate: client.UpdateWorkItem, then the output
runWorkitemUpdate_UpdateWorkItem ==
    /\ pc = "wiUpdate_patch"
    /\ \E net \in Net({[wi |-> v] : v \in WorkItems(local.id)}) :
         LET r == UpdateWorkItem(client, local.project, local.id, local.fields, net)
         IN /\ Log(r)
            /\ IF r.err # NoError
               THEN /\ Return(Wrap(<<"updating work item ">> \o Itoa(local.id),
                                   r.err), << >>, << >>)
               ELSE /\ Return(NoError,
                           <<WorkItemLine(<<"Updated work item ">>, r.value.wi)>>, << >>)
    /\ UNCHANGED <<Persistent, jsonOutput, plainOutput, cmd, client, local>>

\* runWorkitemCreate up to its request
runWorkitemCreate ==
    /\ pc = "idle"
    /\ ParseGlobalFlags
    /\ \E flag \in Projects, wiType \in Texts, title \in Texts, desc \in Texts,
          assignedTo \in Texts, areaPath \in Texts, iterationPath \in Texts :
         /\ cmd' = [name |-> "workitem create", project |-> flag,
                    type |-> wiType, title |-> title, description |-> desc,
                    assignedTo |-> assignedTo, areaPath |-> areaPath,
                    iterationPath |-> iterationPath]
         /\ IF Prelude(flag).err # NoError
            THEN /\ Fail(Prelude(flag).err)
                 /\ client' = Prelude(flag).client
                 /\ UNCHANGED local
            ELSE IF CreateValidation(wiType, title) # NoError
            THEN /\ Fail(CreateValidation(wiType, title))
                 /\ client' = Prelude(flag).client
                 /\ UNCHANGED local
            ELSE /\ Goto("wiCreate_post")
                 /\ client' = Prelude(flag).client
                 /\ local' = [project |-> Prelude(flag).project,
                              fields |-> CreateFields(title, desc, assignedTo,
                                                      areaPath, iterationPath)]
                 /\ UNCHANGED <<calls, responses>>
    /\ UNCHANGED Persistent

\* runWorkitemCreate: client.CreateWorkItem, then the output
runWorkitemCreate_CreateWorkItem ==
    /\ pc = "wiCreate_post"
    /\ \E net \in Net({[wi |-> v] : v \in WorkItems(7)}) :
         LET r == CreateWorkItem(client, local.project, cmd.type, local.fields, net)
         IN /\ Log(r)
            /\ IF r.err # NoError
               THEN /\ Return(Wrap(<<"creating work item">>, r.err), << >>, << >>)
               ELSE /\ Return(NoError,
                           <<WorkItemLine(<<"Created work item ">>, r.value.wi)>>, << >>)
    /\ UNCHANGED <<Persistent, jsonOutput, plainOutput, cmd, client, local>>

\* the work items a batch fetch answers with, one per id asked for
WorkItemLists(ids) == {[i \in 1..Len(ids) |-> [ID |-> ids[i], Title |-> <<"t">>]]}

\* all the ids, whatever --top says
Truncated_Never(ids, top) == ids

\* the ids runWorkitemList asks for: all, or the first top of them
Truncated(ids, top) ==
    IF top > 0 /\ Len(ids) > top THEN SubSeq(ids, 1, top) ELSE ids

\* what runWorkitemList prints for the work items fetched
WorkItemListOutput(items) ==
    CASE OutputFormat = "json" ->
           << <<"[">>
              \o Join([i \in 1..Len(items) |->
                          <<"{\"id\": ">> \o Itoa(items[i].ID)
                              \o <<", \"title\": \"">> \o items[i].Title \o <<"\"}">>],
                      <<", ">>)
              \o <<"]\n">> >>
      [] OutputFormat = "plain" ->
           [i \in 1..Len(items) |->
               Itoa(items[i].ID) \o <<"\t">> \o items[i].Title \o <<"\n">>]
      [] OTHER ->
           << <<"ID Type Title State Assigned To\n">>, <<"----------\n">> >>
           \o [i \in 1..Len(items) |->
                  Itoa(items[i].ID) \o <<" ">> \o items[i].Title \o <<"\n">>]

\* runWorkitemList up to its first request
runWorkitemList ==
    /\ pc = "idle"
    /\ ParseGlobalFlags
    /\ \E flag \in Projects, wiType \in Filters, state \in Filters,
          assignedTo \in Assignees, top \in Tops :
         /\ cmd' = [name |-> "workitem list", project |-> flag, type |-> wiType,
                    state |-> state, assignedTo |-> assignedTo, top |-> top]
         /\ IF Prelude(flag).err # NoError
            THEN /\ Fail(Prelude(flag).err)
                 /\ client' = Prelude(flag).client
                 /\ UNCHANGED local
            ELSE /\ Goto("wiList_wiql")
                 /\ client' = Prelude(flag).client
                 /\ local' = [project |-> Prelude(flag).project,
                              wiql |-> buildWIQL(Prelude(flag).project, wiType,
                                                 state, assignedTo)]
                 /\ UNCHANGED <<calls, responses>>
    /\ UNCHANGED Persistent

\* runWorkitemList: client.QueryByWiql.  The call passes two arguments to a
\* function of three, so the source does not say what top the query carries:
\* any value is allowed here.
runWorkitemList_QueryByWiql ==
    /\ pc = "wiList_wiql"
    /\ \E net \in Net({[refs |-> v] : v \in RefLists}), qtop \in Tops :
         LET r == QueryByWiql(client, local.project, local.wiql, qtop, net)
         IN /\ Log(r)
            /\ IF r.err # NoError
               THEN /\ Return(Wrap(<<"querying work items">>, r.err), << >>, << >>)
                    /\ UNCHANGED local
               ELSE IF Len(r.value.refs) = 0
               THEN /\ Return(NoError,
                           IF OutputFormat = "json" THEN << <<"[]", "\n">> >> ELSE << >>,
                           IF OutputFormat = "json" THEN << >>
                           ELSE << <<"No work items found.", "\n">> >>)
                    /\ UNCHANGED local
               ELSE /\ Goto("wiList_fetch")
                    /\ local' = [project |-> local.project, wiql |-> local.wiql,
                                 refs |-> r.value.refs,
                                 ids |-> Truncated(r.value.refs, cmd.top)]
    /\ UNCHANGED <<Persistent, jsonOutput, plainOutput, cmd, client>>

\* runWorkitemList: client.GetWorkItems, then the output
runWorkitemList_GetWorkItems ==
    /\ pc = "wiList_fetch"
    /\ \E net \in Net({[items |-> v] : v \in WorkItemLists(local.ids)}) :
         LET r == GetWorkItems(client, local.project, local.ids, net)
         IN /\ Log(r)
            /\ IF r.err # NoError
               THEN /\ Return(Wrap(<<"fetching work items">>, r.err), << >>, << >>)
               ELSE /\ Return(NoError, WorkItemListOutput(r.value.items), << >>)
    /\ UNCHANGED <<Persistent, jsonOutput, plainOutput, cmd, client, local>>

\* runWorkitemShow up to its request
runWorkitemShow ==
    /\ pc = "idle"
    /\ ParseGlobalFlags
    /\ \E arg \in IdArgs, flag \in Projects :
         /\ cmd' = [name |-> "workitem show", arg |-> arg, project |-> flag]
         /\ IF ~Atoi(arg).ok
            THEN /\ Fail(NewError("validation",
                                  <<"invalid work item ID: ">> \o arg))
                 /\ UNCHANGED <<client, local>>
            ELSE IF Prelude(flag).err # NoError
            THEN /\ Fail(Prelude(flag).err)
                 /\ client' = Prelude(flag).client
                 /\ UNCHANGED local
            ELSE /\ Goto("wiShow_get")
                 /\ client' = Prelude(flag).client
                 /\ local' = [id |-> Atoi(arg).val,
                              project |-> Prelude(flag).project]
                 /\ UNCHANGED <<calls, responses>>
    /\ UNCHANGED Persistent

\* runWorkitemShow: client.GetWorkItem, then the output
runWorkitemShow_GetWorkItem ==
    /\ pc = "wiShow_get"
    /\ \E net \in Net({[wi |-> v] : v \in WorkItems(local.id)}) :
         LET r == GetWorkItem(client, local.project, local.id, net)
         IN /\ Log(r)
            /\ IF r.err # NoError
               THEN /\ Return(Wrap(<<"fetching work item ">> \o Itoa(local.id),
                                   r.err), << >>, << >>)
               ELSE /\ Return(NoError,
                           <<WorkItemLine(<<"ID: ">>, r.value.wi)>>, << >>)
    /\ UNCHANGED <<Persistent, jsonOutput, plainOutput, cmd, client, local>>

(***************************************************************************)
(* ado pr list / show / create                                             *)
(***************************************************************************)
UpperCase == <<"A", "B", "C", "D", "E", "F", "G", "H", "I", "J", "K", "L", "M",
               "N", "O", "P", "Q", "R", "S", "T", "U", "V", "W", "X", "Y", "Z">>

LowerCase == <<"a", "b", "c", "d", "e", "f", "g", "h", "i", "j", "k", "l", "m",
               "n", "o", "p", "q", "r", "s", "t", "u", "v", "w", "x", "y", "z">>

\* one character, case folded
Fold(t) ==
    IF \E i \in 1..26 : UpperCase[i] = t
    THEN LowerCase[CHOOSE i \in 1..26 : UpperCase[i] = t]
    ELSE t

\* strings.EqualFold
EqualFold(a, b) ==
    /\ Len(a) = Len(b)
    /\ \A i \in 1..Len(a) : Fold(a[i]) = Fold(b[i])

\* the repositories whose name begins with the name given, whatever the case
Matches_Prefix(repos, repoName) ==
    {i \in 1..Len(repos) :
        /\ Len(repos[i].Name) >= Len(repoName)
        /\ EqualFold(SubSeq(repos[i].Name, 1, Len(repoName)), repoName)}

\* resolveRepoID answering from an earlier resolution, with no request
resolveRepoID_Cached(c, project, repoName, net) ==
    [sent |-> << >>, resps |-> << >>, id |-> <<"R1">>, err |-> NoError]

\* the repositories that match, in the order listed
Matches(repos, repoName) ==
    {i \in 1..Len(repos) : EqualFold(repos[i].Name, repoName)}

\* resolveRepoID: list the repositories, return the id of the first match
resolveRepoID(c, project, repoName, net) ==
    LET r == ListRepositories(c, project, net)
    IN IF r.err # NoError
       THEN [sent |-> r.sent, resps |-> r.resps, id |-> Empty,
             err |-> Wrap(<<"listing repositories">>, r.err)]
       ELSE IF Matches(r.value.repos, repoName) # {}
       THEN [sent |-> r.sent, resps |-> r.resps,
             id |-> r.value.repos[Min(Matches(r.value.repos, repoName))].ID,
             err |-> NoError]
       ELSE [sent |-> r.sent, resps |-> r.resps, id |-> Empty,
             err |-> NewError("notfound",
                              <<"repository \"">> \o repoName
                                  \o <<"\" not found in project \"">> \o project
                                  \o <<"\"">>)]

\* strings.HasPrefix
HasPrefix(s, prefix) ==
    Len(s) >= Len(prefix) /\ SubSeq(s, 1, Len(prefix)) = prefix

\* strings.TrimPrefix
TrimPrefix(s, prefix) ==
    IF HasPrefix(s, prefix) THEN SubSeq(s, Len(prefix) + 1, Len(s)) ELSE s

\* shortBranch
shortBranch(ref) == TrimPrefix(ref, <<"refs/", "heads/">>)

\* ensureRef
ensureRef(branch) ==
    IF HasPrefix(branch, <<"refs/">>) THEN branch
    ELSE <<"refs/", "heads/">> \o branch

\* unicode.IsSpace, on the characters the model types
IsSpace(ch) == ch \in {" ", "\t", "\n", "\r"}

\* strings.TrimSpace
RECURSIVE TrimSpace(_)
TrimSpace(s) ==
    IF s = << >> THEN s
    ELSE IF IsSpace(Head(s)) THEN TrimSpace(Tail(s))
    ELSE IF IsSpace(s[Len(s)]) THEN TrimSpace(SubSeq(s, 1, Len(s) - 1))
    ELSE s

\* the reviewers of --reviewers: split at commas, trimmed, empty ones dropped
RECURSIVE ReviewersOf(_)
ReviewersOf(parts) ==
    IF parts = << >> THEN << >>
    ELSE (IF TrimSpace(Head(parts)) # Empty
          THEN <<[ID |-> TrimSpace(Head(parts))]>> ELSE << >>)
         \o ReviewersOf(Tail(parts))

\* the api.CreatePRInput runPRCreate builds
CreatePRInput(source, target, title, desc, draft, reviewersStr) ==
    [SourceRefName |-> ensureRef(source),
     TargetRefName |-> ensureRef(target),
     Title         |-> title,
     Description   |-> desc,
     IsDraft       |-> draft,
     Reviewers     |-> IF reviewersStr # Empty
                       THEN ReviewersOf(Split(reviewersStr, ","))
                       ELSE << >>]

RepoNames == {Empty, <<"a", "L">>, <<"z">>}

RepoLists ==
    {<< >>,
     <<[ID |-> <<"R1">>, Name |-> <<"A", "l">>],
       [ID |-> <<"R2">>, Name |-> <<"a", "l">>]>>,
     <<[ID |-> <<"R1">>, Name |-> <<"a", "l", "p">>],
       [ID |-> <<"R2">>, Name |-> <<"a", "l">>]>>}

Criteria == {Empty, <<"x", "&", "y", "=", " ">>}

Branches == {Empty, <<"m">>, <<"refs/", "tags/", "v">>}

\* --description, --reviewers and --draft: none given, or all of them
CreateOptions ==
    {[description |-> Empty, reviewers |-> Empty, draft |-> FALSE],
     [description |-> <<"a">>, reviewers |-> <<"r", ",", " ", "q", " ", ",">>,
      draft |-> TRUE]}

PullRequestLists ==
    {<< >>,
     <<[ID |-> 4, Title |-> <<"t">>, RepositoryID |-> <<"R1">>],
       [ID |-> 2, Title |-> <<"u">>, RepositoryID |-> <<"R2">>]>>}

\* one pull request in the format chosen; column padding, the cut of long
\* titles and the detail lines of the table are left out
PullRequestLine(verb, pr) ==
    CASE OutputFormat = "json" ->
           <<"{\"pullRequestId\": ">> \o Itoa(pr.ID) \o <<", \"title\": \"">>
               \o pr.Title \o <<"\"}\n">>
      [] OutputFormat = "plain" -> Itoa(pr.ID) \o <<"\t">> \o pr.Title \o <<"\n">>
      [] OTHER -> verb \o Itoa(pr.ID) \o <<": ">> \o pr.Title \o <<"\n">>

\* what runPRList prints for the pull requests listed
PullRequestListOutput(prs) ==
    CASE OutputFormat = "json" ->
           << <<"[">>
              \o Join([i \in 1..Len(prs) |->
                          <<"{\"pullRequestId\": ">> \o Itoa(prs[i].ID)
                              \o <<", \"title\": \"">> \o prs[i].Title \o <<"\"}">>],
                      <<", ">>)
              \o <<"]\n">> >>
      [] OutputFormat = "plain" ->
           [i \in 1..Len(prs) |->
               Itoa(prs[i].ID) \o <<"\t">> \o prs[i].Title \o <<"\n">>]
      [] OTHER ->
           << <<"ID Title Source Target Status Creator\n">>, <<"----------\n">> >>
           \o [i \in 1..Len(prs) |->
                  Itoa(prs[i].ID) \o <<" ">> \o prs[i].Title \o <<"\n">>]

\* runPRList up to its first request
runPRList ==
    /\ pc = "idle"
    /\ ParseGlobalFlags
    /\ \E flag \in Projects, status \in Criteria, people \in Criteria,
          repo \in RepoNames, top \in Tops :
         /\ cmd' = [name |-> "pr list", project |-> flag, status |-> status,
                    creator |-> people, reviewer |-> people, repo |-> repo,
                    top |-> top]
         /\ IF Prelude(flag).err # NoError
            THEN /\ Fail(Prelude(flag).err)
                 /\ client' = Prelude(flag).client
                 /\ UNCHANGED local
            ELSE /\ Goto(IF repo # Empty THEN "prList_repo" ELSE "prList_list")
                 /\ client' = Prelude(flag).client
                 /\ local' = [project |-> Prelude(flag).project, repoID |-> Empty]
                 /\ UNCHANGED <<calls, responses>>
    /\ UNCHANGED Persistent

\* runPRList: resolveRepoID, when --repo was given
runPRList_resolveRepoID ==
    /\ pc = "prList_repo"
    /\ \E net \in Net({[repos |-> v] : v \in RepoLists}) :
         LET r == resolveRepoID(client, local.project, cmd.repo, net)
         IN /\ Log(r)
            /\ IF r.err # NoError
               THEN /\ Return(r.err, << >>, << >>)
                    /\ UNCHANGED local
               ELSE /\ Goto("prList_list")
                    /\ local' = [project |-> local.project, repoID |-> r.id]
    /\ UNCHANGED <<Persistent, jsonOutput, plainOutput, cmd, client>>

\* runPRList: client.ListPullRequests, then the output
runPRList_ListPullRequests ==
    /\ pc = "prList_list"
    /\ \E net \in Net({[prs |-> v] : v \in PullRequestLists}) :
         LET r == ListPullRequests(client, local.project, local.repoID,
                                   [Status |-> cmd.status, Creator |-> cmd.creator,
                                    Reviewer |-> cmd.reviewer, Top |-> cmd.top],
                                   net)
         IN /\ Log(r)
            /\ IF r.err # NoError
               THEN /\ Return(Wrap(<<"listing pull requests">>, r.err), << >>, << >>)
               ELSE IF Len(r.value.prs) = 0
               THEN /\ Return(NoError,
                           IF OutputFormat = "json" THEN << <<"[]", "\n">> >> ELSE << >>,
                           IF OutputFormat = "json" THEN << >>
                           ELSE << <<"No pull requests found.", "\n">> >>)
               ELSE /\ Return(NoError, PullRequestListOutput(r.value.prs), << >>)
    /\ UNCHANGED <<Persistent, jsonOutput, plainOutput, cmd, client, local>>

\* runPRShow up to its request
runPRShow ==
    /\ pc = "idle"
    /\ ParseGlobalFlags
    /\ \E arg \in IdArgs, flag \in Projects :
         /\ cmd' = [name |-> "pr show", arg |-> arg, project |-> flag]
         /\ IF ~Atoi(arg).ok
            THEN /\ Fail(NewError("validation",
                                  <<"invalid pull request ID: ">> \o arg))
                 /\ UNCHANGED <<client, local>>
            ELSE IF Prelude(flag).err # NoError
            THEN /\ Fail(Prelude(flag).err)
                 /\ client' = Prelude(flag).client
                 /\ UNCHANGED local
            ELSE /\ Goto("prShow_get")
                 /\ client' = Prelude(flag).client
                 /\ local' = [id |-> Atoi(arg).val,
                              project |-> Prelude(flag).project]
                 /\ UNCHANGED <<calls, responses>>
    /\ UNCHANGED Persistent

\* runPRShow: client.GetPullRequest, then the output
runPRShow_GetPullRequest ==
    /\ pc = "prShow_get"
    /\ \E net \in Net({[pr |-> v] : v \in PullRequests(local.id)}) :
         LET r == GetPullRequest(client, local.project, local.id, net)
         IN /\ Log(r)
            /\ IF r.err # NoError
               THEN /\ Return(Wrap(<<"fetching pull request ">> \o Itoa(local.id),
                                   r.err), << >>, << >>)
               ELSE /\ Return(NoError,
                           <<PullRequestLine(<<"ID: ">>, r.value.pr)>>, << >>)
    /\ UNCHANGED <<Persistent, jsonOutput, plainOutput, cmd, client, local>>

\* the checks of runPRCreate without the one of --target
PRCreateValidation_NoTarget(repo, title, source, target) ==
    IF repo = Empty THEN NewError("validation", <<"--repo is required">>)
    ELSE IF title = Empty THEN NewError("validation", <<"--title is required">>)
    ELSE IF source = Empty THEN NewError("validation", <<"--source is required">>)
    ELSE NoError

\* runPRCreate: --repo, --title, --source and --target are required
PRCreateValidation(repo, title, source, target) ==
    IF repo = Empty THEN NewError("validation", <<"--repo is required">>)
    ELSE IF title = Empty THEN NewError("validation", <<"--title is required">>)
    ELSE IF source = Empty THEN NewError("validation", <<"--source is required">>)
    ELSE IF target = Empty THEN NewError("validation", <<"--target is required">>)
    ELSE NoError

\* runPRCreate up to its first request
runPRCreate ==
    /\ pc = "idle"
    /\ ParseGlobalFlags
    /\ \E flag \in Projects, repo \in RepoNames, title \in Texts,
          source \in Branches, target \in Branches, more \in CreateOptions :
         /\ cmd' = [name |-> "pr create", project |-> flag, repo |-> repo,
                    title |-> title, source |-> source, target |-> target,
                    description |-> more.description,
                    reviewers |-> more.reviewers, draft |-> more.draft]
         /\ IF Prelude(flag).err # NoError
            THEN /\ Fail(Prelude(flag).err)
                 /\ client' = Prelude(flag).client
                 /\ UNCHANGED local
            ELSE IF PRCreateValidation(repo, title, source, target) # NoError
            THEN /\ Fail(PRCreateValidation(repo, title, source, target))
                 /\ client' = Prelude(flag).client
                 /\ UNCHANGED local
            ELSE /\ Goto("prCreate_repo")
                 /\ client' = Prelude(flag).client
                 /\ local' = [project |-> Prelude(flag).project, repoID |-> Empty]
                 /\ UNCHANGED <<calls, responses>>
    /\ UNCHANGED Persistent

\* runPRCreate: resolveRepoID
runPRCreate_resolveRepoID ==
    /\ pc = "prCreate_repo"
    /\ \E net \in Net({[repos |-> v] : v \in RepoLists}) :
         LET r == resolveRepoID(client, local.project, cmd.repo, net)
         IN /\ Log(r)
            /\ IF r.err # NoError
               THEN /\ Return(r.err, << >>, << >>)
                    /\ UNCHANGED local
               ELSE /\ Goto("prCreate_post")
                    /\ local' = [project |-> local.project, repoID |-> r.id]
    /\ UNCHANGED <<Persistent, jsonOutput, plainOutput, cmd, client>>

\* runPRCreate: client.CreatePullRequest, then the output
runPRCreate_CreatePullRequest ==
    /\ pc = "prCreate_post"
    /\ \E net \in Net({[pr |-> [ID |-> 5, Title |-> cmd.title,
                                RepositoryID |-> local.repoID]]}) :
         LET r == CreatePullRequest(client, local.project, local.repoID,
                                    CreatePRInput(cmd.source, cmd.target,
                                                  cmd.title, cmd.description,
                                                  cmd.draft, cmd.reviewers),
                                    net)
         IN /\ Log(r)
            /\ IF r.err # NoError
               THEN /\ Return(Wrap(<<"creating pull request">>, r.err), << >>, << >>)
               ELSE /\ Return(NoError,
                           <<PullRequestLine(<<"Created pull request ">>, r.value.pr)>>, << >>)
    /\ UNCHANGED <<Persistent, jsonOutput, plainOutput, cmd, client, local>>

(***************************************************************************)
(* ado auth status                                                         *)
(***************************************************************************)
\* authStatusOutput.TokenPrefix: the first four characters of a token that
\* has as many, with "..." after them
TokenPrefix(kr) ==
    IF kr.found /\ kr.pat # Empty /\ Len(kr.pat) >= 4
    THEN SubSeq(kr.pat, 1, 4) \o <<"...">>
    ELSE Empty

\* what runAuthStatus prints for the keyring it finds, in the format chosen
AuthStatusOutput(kr, format) ==
    LET authenticated == kr.found /\ kr.pat # Empty
    IN IF format = "json"
       THEN << <<"{\"authenticated\": ">>
               \o <<IF authenticated THEN "true" ELSE "false">>
               \o <<", \"token_stored\": ">>
               \o <<IF authenticated THEN "true" ELSE "false">>
               \o (IF TokenPrefix(kr) # Empty
                   THEN <<", \"token_prefix\": \"">> \o TokenPrefix(kr) \o <<"\"">>
                   ELSE << >>)
               \o <<"}\n">> >>
       ELSE IF authenticated
       THEN << <<"Authenticated: yes (token: ">> \o TokenPrefix(kr) \o <<")\n">> >>
       ELSE << <<"Authenticated: no", "\n">>,
               <<"Run 'ado auth login' to authenticate.", "\n">> >>

\* runAuthStatus
runAuthStatus ==
    /\ pc = "idle"
    /\ ParseGlobalFlags
    /\ cmd' = [name |-> "auth status"]
    /\ UNCHANGED <<Persistent, client, local, calls, responses>>
    /\ Return(NoError, AuthStatusOutput(keyring, OutputFormat'), << >>)

(***************************************************************************)
(* The configuration file: package config, ado config get / set            *)
(***************************************************************************)
\* the text of an output format name; the name of a one-word text
FormatText(f) == IF f = "" THEN Empty ELSE <<f>>

FormatName(text) == IF text = Empty THEN "" ELSE text[1]

\* how reading or writing the file goes
FileOutcomes == {"ok", "error"}

\* config.Load: the defaults when there is no file, the file's values as
\* they are when there is one; io is how os.ReadFile goes on a file there is
Load(io) ==
    IF ~cfgExists
    THEN [cfg |-> [Organization |-> Empty, Project |-> Empty,
                   OutputFormat |-> "table"],
          err |-> NoError]
    ELSE IF io = "error"
    THEN [cfg |-> [Organization |-> Empty, Project |-> Empty,
                   OutputFormat |-> ""],
          err |-> NewError("config",
                           <<"reading config file: ", "permission denied">>)]
    ELSE [cfg |-> [Organization |-> organization, Project |-> cfgProject,
                   OutputFormat |-> cfgOutputFormat],
          err |-> NoError]

\* (*Config).Save: the file holds the three fields of c afterwards
Save(c) ==
    /\ cfgExists' = TRUE
    /\ organization' = c.Organization
    /\ cfgProject' = c.Project
    /\ cfgOutputFormat' = c.OutputFormat

ConfigKeys == {"organization", "project", "output_format", "org"}

UnknownKey(key) ==
    NewError("validation",
             <<"unknown config key \"", key,
               "\" (valid: organization, project, output_format)">>)

\* the switch of runConfigGet
ConfigValue(cfg, key) ==
    CASE key = "organization" -> [value |-> cfg.Organization, err |-> NoError]
      [] key = "project" -> [value |-> cfg.Project, err |-> NoError]
      [] key = "output_format" ->
            [value |-> FormatText(cfg.OutputFormat), err |-> NoError]
      [] OTHER -> [value |-> Empty, err |-> UnknownKey(key)]

\* runConfigGet
runConfigGet ==
    /\ pc = "idle"
    /\ ParseGlobalFlags
    /\ \E key \in ConfigKeys, io \in FileOutcomes :
         LET l == Load(io)
             v == ConfigValue(l.cfg, key)
         IN /\ cmd' = [name |-> "config get", key |-> key]
            /\ IF l.err # NoError THEN Fail(l.err)
               ELSE IF v.err # NoError THEN Fail(v.err)
               ELSE /\ Return(NoError, <<v.value \o <<"\n">> >>, << >>)
                    /\ UNCHANGED <<calls, responses>>
    /\ UNCHANGED <<Persistent, client, local>>

\* the values ado config set is given
SetValues == {Empty, <<"o", "r", "g">>, <<"table">>, <<"json">>, <<"plain">>,
              <<"yaml">>}

\* the switch of runConfigSet taking any output format
ConfigSet_AnyFormat(cfg, key, value) ==
    CASE key = "organization" ->
            [cfg |-> [cfg EXCEPT !.Organization = value], err |-> NoError]
      [] key = "project" ->
            [cfg |-> [cfg EXCEPT !.Project = value], err |-> NoError]
      [] key = "output_format" ->
            [cfg |-> [cfg EXCEPT !.OutputFormat = FormatName(value)],
             err |-> NoError]
      [] OTHER -> [cfg |-> cfg, err |-> UnknownKey(key)]

\* the switch of runConfigSet
ConfigSet(cfg, key, value) ==
    CASE key = "organization" ->
            [cfg |-> [cfg EXCEPT !.Organization = value], err |-> NoError]
      [] key = "project" ->
            [cfg |-> [cfg EXCEPT !.Project = value], err |-> NoError]
      [] key = "output_format" ->
            IF value # <<"table">> /\ value # <<"json">> /\ value # <<"plain">>
            THEN [cfg |-> cfg,
                  err |-> NewError("validation",
                                   <<"invalid output_format \"">> \o value
                                       \o <<"\" (must be table, json, or plain)">>)]
            ELSE [cfg |-> [cfg EXCEPT !.OutputFormat = FormatName(value)],
                  err |-> NoError]
      [] OTHER -> [cfg |-> cfg, err |-> UnknownKey(key)]

\* runConfigSet: rd and wr are how reading and writing the file go
runConfigSet ==
    /\ pc = "idle"
    /\ ParseGlobalFlags
    /\ \E key \in ConfigKeys, value \in SetValues,
          rd \in FileOutcomes, wr \in FileOutcomes :
         LET l == Load(rd)
             s == ConfigSet(l.cfg, key, value)
         IN /\ cmd' = [name |-> "config set", key |-> key, value |-> value]
            /\ IF l.err # NoError
               THEN Fail(l.err) /\ UNCHANGED ConfigFile
               ELSE IF s.err # NoError
               THEN Fail(s.err) /\ UNCHANGED ConfigFile
               ELSE IF wr = "error"
               THEN /\ Fail(Wrap(<<"saving config">>,
                                 NewError("config", <<"permission denied">>)))
                    /\ UNCHANGED ConfigFile
               ELSE /\ Save(s.cfg)
                    /\ Return(NoError, << >>,
                              << <<"Set ", key, " = ">> \o value \o <<"\n">> >>)
                    /\ UNCHANGED <<calls, responses>>
    /\ UNCHANGED <<keyring, lastAuth, client, local>>

(***************************************************************************)
(* ado auth login / ado auth logout                                        *)
(***************************************************************************)
\* --pat
PatFlags == {Empty, <<" ">>, <<"k", "e", "y">>}

\* what is typed at the prompt, and whether a newline ends it
StdinLines ==
    {[text |-> t, eol |-> e] :
        t \in {Empty, <<" ", "\t">>, <<" ", "t", "o", "k", " ">>},
        e \in BOOLEAN}

\* how the keyring backend takes a call
KeyringOutcomes == {"ok", "error"}

\* runAuthLogin up to the token it goes on with: the flag as it is given,
\* or else the line read at the prompt, trimmed; ReadString fails on input
\* that ends before a newline
ReadPAT(patFlag, in) ==
    IF patFlag # Empty
    THEN [pat |-> patFlag, err |-> NoError, prompt |-> << >>]
    ELSE IF ~in.eol
    THEN [pat |-> Empty, err |-> NewError("validation", <<"reading PAT: ", "EOF">>),
          prompt |-> << <<"Enter PAT: ">> >>]
    ELSE [pat |-> TrimSpace(in.text \o <<"\n">>), err |-> NoError,
          prompt |-> << <<"Enter PAT: ">> >>]

\* runAuthLogin
runAuthLogin ==
    /\ pc = "idle"
    /\ ParseGlobalFlags
    /\ \E patFlag \in PatFlags, in \in StdinLines, kr \in KeyringOutcomes :
         LET p == ReadPAT(patFlag, in)
         IN /\ cmd' = [name |-> "auth login", pat |-> patFlag, stdin |-> in]
            /\ IF p.err # NoError
               THEN /\ Return(p.err, << >>, p.prompt)
                    /\ UNCHANGED <<keyring, lastAuth>>
               ELSE IF p.pat = Empty
               THEN /\ Return(NewError("validation", <<"PAT cannot be empty">>),
                              << >>, p.prompt)
                    /\ UNCHANGED <<keyring, lastAuth>>
               ELSE IF kr = "error"
               THEN /\ Return(NewError("config",
                                       <<"storing PAT in keyring: ",
                                         "keyring unavailable">>),
                              << >>, p.prompt)
                    /\ UNCHANGED <<keyring, lastAuth>>
               ELSE /\ keyring' = [found |-> TRUE, pat |-> p.pat]
                    /\ lastAuth' = "login"
                    /\ Return(NoError, << >>,
                              p.prompt \o << <<"PAT stored successfully.", "\n">> >>)
    /\ UNCHANGED <<ConfigFile, client, local, calls, responses>>

\* runAuthLogout: keyring.Delete fails when no entry is stored
runAuthLogout ==
    /\ pc = "idle"
    /\ ParseGlobalFlags
    /\ \E kr \in KeyringOutcomes :
         /\ cmd' = [name |-> "auth logout"]
         /\ IF ~keyring.found \/ kr = "error"
            THEN /\ Return(NewError("config",
                                    <<"removing PAT from keyring: ">>
                                        \o (IF keyring.found
                                            THEN <<"keyring unavailable">>
                                            ELSE <<"secret not found in keyring">>)),
                           << >>, << >>)
                 /\ UNCHANGED <<keyring, lastAuth>>
            ELSE /\ keyring' = [found |-> FALSE, pat |-> Empty]
                 /\ lastAuth' = "logout"
                 /\ Return(NoError, << >>,
                           << <<"PAT removed from keyring.", "\n">> >>)
    /\ UNCHANGED <<ConfigFile, client, local, calls, responses>>

(***************************************************************************)
(* The specification.                                                      *)
(***************************************************************************)
Next ==
    \/ runWorkitemList
    \/ runWorkitemList_QueryByWiql
    \/ runWorkitemList_GetWorkItems
    \/ runWorkitemShow
    \/ runWorkitemShow_GetWorkItem
    \/ runWorkitemCreate
    \/ runWorkitemCreate_CreateWorkItem
    \/ runWorkitemUpdate
    \/ runWorkitemUpdate_UpdateWorkItem
    \/ runPRList
    \/ runPRList_resolveRepoID
    \/ runPRList_ListPullRequests
    \/ runPRShow
    \/ runPRShow_GetPullRequest
    \/ runPRCreate
    \/ runPRCreate_resolveRepoID
    \/ runPRCreate_CreatePullRequest
    \/ runPRApprove
    \/ runPRReject
    \/ votePR_GetPullRequest
    \/ votePR_GetConnectionData
    \/ votePR_VotePullRequest
    \/ runAuthStatus
    \/ runConfigGet
    \/ NewProcess

Spec == Init /\ [][Next]_vars

\* a machine with no configuration file and nothing in the keyring
InitAdmin ==
    /\ Init
    /\ ~cfgExists
    /\ ~keyring.found

\* the commands that keep the configuration file and the keyring
NextAdmin ==
    \/ runConfigSet
    \/ runConfigGet
    \/ runAuthLogin
    \/ runAuthLogout
    \/ runAuthStatus
    \/ NewProcess

SpecAdmin == InitAdmin /\ [][NextAdmin]_vars

(***************************************************************************)
(* Properties.                                                             *)
(***************************************************************************)
IsVote == cmd.name \in {"pr approve", "pr reject"}

\* the round trip of call i failed: no response, or an error status
FailedCall(i) == calls[i].failed \/ calls[i].status >= 400

\* the indices of the calls that got a response
Answered == {i \in 1..Len(calls) : ~calls[i].failed}

\* C1: a vote that succeeds has made exactly three requests: GET the pull
\* request, GET connectionData, PUT the vote, whose path holds the repository
\* id the first answer gave, the pull request id and the user id the second
\* answer gave.
C1_VoteMakesThreeCalls ==
    (IsVote /\ pc = "exited" /\ err = NoError) =>
        /\ Len(calls) = 3
        /\ Len(responses) = 3
        /\ calls[1].req.Method = "GET"
        /\ Contains(calls[1].req.Path,
                    <<"/_apis/", "git/pullrequests/">> \o Itoa(Atoi(cmd.arg).val))
        /\ calls[2].req.Method = "GET"
        /\ Contains(calls[2].req.Path, <<"/_apis", "/", "connectionData">>)
        /\ calls[3].req.Method = "PUT"
        /\ Contains(calls[3].req.Path,
                    <<"git/repositories/">> \o responses[1].Value.pr.RepositoryID
                        \o <<"/pullrequests/">> \o Itoa(Atoi(cmd.arg).val)
                        \o <<"/reviewers/">>
                        \o responses[2].Value.conn.AuthenticatedUserID)
        /\ calls[3].req.Body = JSONBody([vote |-> cmd.vote])

C1_Witness ==
    /\ cmd.name = "pr reject"
    /\ pc = "exited"
    /\ err = NoError
    /\ Len(calls) = 3
    /\ responses[1].Value.pr.RepositoryID = <<"R1">>
    /\ responses[2].Value.conn.AuthenticatedUserID = <<"U9">>

\* C2: in the vote workflow a failed round trip (no response, or a status of
\* 400 or above) is the last one: the command has returned an error, exits
\* with status 1 and has written nothing to stdout; and the PUT is only ever
\* the third request, after two GETs that succeeded.
C2_VoteAbortsOnFailure ==
    IsVote =>
        /\ \A i \in 1..Len(calls) :
              FailedCall(i) =>
                  /\ i = Len(calls)
                  /\ pc = "exited"
                  /\ err # NoError
                  /\ exitCode = 1
                  /\ stdout = << >>
        /\ \A i \in 1..Len(calls) :
              calls[i].req.Method = "PUT" =>
                  /\ i = 3
                  /\ ~FailedCall(1) /\ responses[1].err = NoError
                  /\ ~FailedCall(2) /\ responses[2].err = NoError

C2_Witness ==
    /\ IsVote
    /\ pc = "exited"
    /\ Len(calls) = 2
    /\ ~FailedCall(1)
    /\ FailedCall(2)
    /\ err.kind = "api"
    /\ stdout = << >>

\* the commands that talk to the service
ServiceCommands ==
    {"workitem list", "workitem show", "workitem create", "workitem update",
     "pr list", "pr show", "pr create", "pr approve", "pr reject"}

\* the commands whose handler parses an id argument before anything else
IdCommands ==
    {"workitem show", "workitem update", "pr show", "pr approve", "pr reject"}

\* the running command has failed without any request having been made
FailedBeforeNetwork ==
    /\ pc = "exited"
    /\ err # NoError
    /\ exitCode = 1
    /\ calls = << >>
    /\ responses = << >>

\* C3: a work item update whose title, state and assigned-to are all empty
\* fails and makes no network call at all.  Where the client and the project
\* could be resolved the error is a validation error, and where the id
\* argument is a number too it is the "no fields to update" error.
C3_UpdateWithoutFieldsFails ==
    (/\ cmd.name = "workitem update"
     /\ cmd.title = Empty /\ cmd.state = Empty /\ cmd.assignedTo = Empty) =>
        /\ FailedBeforeNetwork
        /\ Prelude(cmd.project).err = NoError => err.kind = "validation"
        /\ (Atoi(cmd.arg).ok /\ Prelude(cmd.project).err = NoError) =>
              err.msg = <<"no fields to update (use --title, --state, or --assigned-to)">>

C3_Witness ==
    /\ cmd.name = "workitem update"
    /\ cmd.title = Empty /\ cmd.state = Empty /\ cmd.assignedTo = Empty
    /\ Atoi(cmd.arg).ok
    /\ client # NoClient
    /\ pc = "exited"
    /\ err.kind = "validation"
    /\ err.msg = <<"no fields to update (use --title, --state, or --assigned-to)">>
    /\ calls = << >>

\* C4: a work item create whose type or title is empty fails and makes no
\* network call; where the client and the project could be resolved the error
\* is the validation error of the first missing input.  The create request is
\* only ever prepared or sent with both inputs non-empty.
C4_CreateRequiresTypeAndTitle ==
    cmd.name = "workitem create" =>
        /\ (cmd.type = Empty \/ cmd.title = Empty) =>
              /\ FailedBeforeNetwork
              /\ Prelude(cmd.project).err = NoError =>
                    /\ err.kind = "validation"
                    /\ err.msg = IF cmd.type = Empty
                                 THEN <<"--type is required">>
                                 ELSE <<"--title is required">>
        /\ (pc = "wiCreate_post" \/ calls # << >>) =>
              cmd.type # Empty /\ cmd.title # Empty

C4_Witness ==
    /\ cmd.name = "workitem create"
    /\ cmd.type # Empty
    /\ cmd.title = Empty
    /\ client # NoClient
    /\ pc = "exited"
    /\ err.kind = "validation"
    /\ err.msg = <<"--title is required">>
    /\ calls = << >>

\* C5: a service command run with no organization configured, no credential
\* stored, or no project given by flag or configuration fails and makes no
\* network call; the error is the configuration error, except that the
\* commands taking an id argument reject an argument that is no number first.
C5_MissingConfigurationFails ==
    (/\ cmd.name \in ServiceCommands
     /\ \/ organization = Empty
        \/ ~keyring.found
        \/ (cmd.project = Empty /\ cfgProject = Empty)) =>
        /\ FailedBeforeNetwork
        /\ (cmd.name \in IdCommands => Atoi(cmd.arg).ok) => err.kind = "config"

C5_Witness ==
    /\ cmd.name = "pr list"
    /\ organization # Empty
    /\ keyring.found
    /\ cmd.project = Empty /\ cfgProject = Empty
    /\ pc = "exited"
    /\ err.kind = "config"
    /\ calls = << >>

\* C6: of every response the client has dealt with: a status below 400 is
\* no API error, and the body went to the JSON decoder wherever the caller
\* asked for a result; a status of 400 or above gave an api.Error holding
\* that status and that body, whose text contains both, and nothing was
\* decoded.  The error the command ends with still holds them.
C6_StatusDecidesSuccess ==
    \A i \in 1..Len(responses) :
        LET r == responses[i]
        IN /\ r.StatusCode < 400 =>
                 /\ r.err.kind \in {"nil", "decode"}
                 /\ r.want => r.decoded
                 /\ r.err = NoError <=> (r.want => r.Valid)
           /\ r.StatusCode >= 400 =>
                 /\ r.err.kind = "api"
                 /\ r.err.StatusCode = r.StatusCode
                 /\ r.err.Body = r.Body
                 /\ Contains(r.err.msg, Itoa(r.StatusCode))
                 /\ Contains(r.err.msg, r.Body)
                 /\ ~r.decoded
                 /\ i = Len(responses)
                 /\ pc = "exited"
                 /\ err.kind = "api"
                 /\ err.StatusCode = r.StatusCode
                 /\ err.Body = r.Body
                 /\ Contains(err.msg, Itoa(r.StatusCode) \o <<"): ">> \o r.Body)

C6_Witness ==
    /\ Len(responses) = 2
    /\ responses[1].StatusCode = 399
    /\ responses[1].decoded
    /\ responses[1].err = NoError
    /\ responses[2].StatusCode = 404
    /\ responses[2].Body = <<"not found">>
    /\ err.kind = "api"
    /\ Contains(err.msg, <<"4", "0", "4">>)
    /\ Contains(err.msg, <<"not found">>)

\* the query parameters of the request sent as call i
SentQuery(i) == ParseQuery(calls[i].req.RawQuery)

\* the query parameters the target of call i held
TargetQuery(i) == ParseQuery(ParseURL(calls[i].req.Target).RawQuery)

\* the number of "key=value" pieces of a raw query
Pieces(rawQuery) ==
    IF rawQuery = Empty THEN 0 ELSE Len(Split(rawQuery, "&"))

\* C7: every request sent, by do and by doRaw, has the one api-version
\* parameter with the client's version, and every parameter its target held
\* is in it with the same value, nothing else being added or dropped; the
\* ids of a work item fetch, the $top of a WIQL query and the search criteria
\* of a pull request listing arrive as the command gave them.
C7_ApiVersionOnEveryRequest ==
    \A i \in 1..Len(calls) :
        LET req == calls[i].req
        IN /\ req.Mode \in {"do", "doRaw"}
           /\ client.APIVersion = defaultAPIVersion
           /\ <<"api-version">> \in DOMAIN SentQuery(i)
           /\ SentQuery(i)[<<"api-version">>] = <<client.APIVersion>>
           /\ \A k \in DOMAIN TargetQuery(i) :
                 /\ k \in DOMAIN SentQuery(i)
                 /\ SentQuery(i)[k] = TargetQuery(i)[k]
           /\ DOMAIN SentQuery(i) = DOMAIN TargetQuery(i) \cup {<<"api-version">>}
           /\ Pieces(req.RawQuery)
                 = Pieces(ParseURL(req.Target).RawQuery) + 1
           /\ (cmd.name = "workitem list" /\ i = 1) =>
                 /\ req.Mode = "doRaw"
                 /\ \E t \in Tops : SentQuery(i)[<<"$", "top">>] = <<Itoa(t)>>
           /\ (cmd.name = "workitem list" /\ i = 2) =>
                 /\ req.Mode = "do"
                 /\ SentQuery(i)[<<"ids">>]
                       = <<Join([j \in 1..Len(local.ids) |-> Itoa(local.ids[j])],
                                <<",">>)>>
           /\ (cmd.name = "pr list"
                 /\ i = (IF cmd.repo # Empty THEN 2 ELSE 1)) =>
                 /\ cmd.status # Empty =>
                       SentQuery(i)[<<"searchCriteria.status">>] = <<cmd.status>>
                 /\ cmd.creator # Empty =>
                       SentQuery(i)[<<"searchCriteria.creatorId">>] = <<cmd.creator>>
                 /\ cmd.top > 0 =>
                       SentQuery(i)[<<"$", "top">>] = <<Itoa(cmd.top)>>

C7_Witness ==
    /\ cmd.name = "workitem list"
    /\ Len(calls) = 2
    /\ calls[1].req.Mode = "doRaw"
    /\ <<"$", "top">> \in DOMAIN SentQuery(1)
    /\ SentQuery(1)[<<"api-version">>] = <<defaultAPIVersion>>
    /\ calls[2].req.Mode = "do"
    /\ SentQuery(2)[<<"ids">>] = << <<"9", ",", "8">> >>
    /\ SentQuery(2)[<<"api-version">>] = <<defaultAPIVersion>>

\* C8: every response a round trip delivered has been closed exactly once by
\* the time its operation has returned, whether it was decoded, had a status
\* of 400 or above, or failed to decode; and every round trip that delivered
\* a response has its response among them.
C8_ResponseClosedOnce ==
    /\ Len(responses) = Cardinality(Answered)
    /\ \A i \in 1..Len(responses) : responses[i].closed = 1

C8_Witness ==
    /\ Len(responses) = 2
    /\ responses[1].err = NoError
    /\ responses[1].closed = 1
    /\ responses[2].StatusCode < 400
    /\ responses[2].err.kind = "decode"
    /\ responses[2].closed = 1
    /\ pc = "exited"

\* the most requests one run of a command makes
MaxCalls ==
    CASE cmd.name \in {"pr approve", "pr reject"} -> 3
      [] cmd.name \in {"workitem list", "pr list", "pr create"} -> 2
      [] cmd.name \in ServiceCommands -> 1
      [] OTHER -> 0

\* C9: nothing is retried.  Within one invocation no request is sent twice
\* and no command makes more requests than its workflow has steps; a round
\* trip that failed, by the transport or by an error status, is the last one
\* and the command has returned its error.
C9_NoRetry ==
    /\ Len(calls) <= MaxCalls
    /\ \A i, j \in 1..Len(calls) : i # j => calls[i].req # calls[j].req
    /\ \A i \in 1..Len(calls) :
          FailedCall(i) =>
              /\ i = Len(calls)
              /\ pc = "exited"
              /\ err.kind \in {"transport", "api"}
              /\ exitCode = 1

C9_Witness ==
    /\ cmd.name = "workitem list"
    /\ Len(calls) = 2
    /\ ~FailedCall(1)
    /\ calls[2].failed
    /\ pc = "exited"
    /\ err.kind = "transport"

\* position i of s lies inside a quoted literal
Quoted(s, i) == Cardinality({j \in 1..(i - 1) : s[j] = "'"}) % 2 = 1

\* the positions where word t stands outside the quoted literals of s
TopLevel(s, t) == {i \in 1..Len(s) : s[i] = t /\ ~Quoted(s, i)}

\* the text between WHERE and ORDER BY
WhereBody(s) == SubSeq(s, 3, Len(s) - 1)

\* where the clauses of a WHERE body begin
ClauseStarts(b) == {1} \cup {i + 1 : i \in TopLevel(b, " AND ")}

\* the field each clause of a WHERE body compares, in the order of the clauses
ClauseFields(b) ==
    [k \in 1..Cardinality(ClauseStarts(b)) |->
        b[CHOOSE i \in ClauseStarts(b) :
              Cardinality({j \in ClauseStarts(b) : j < i}) = k - 1]]

\* the fields the filters of the running work item list ask for
ExpectedFields ==
    <<"[System.TeamProject]">>
    \o (IF cmd.type # Empty THEN <<"[System.WorkItemType]">> ELSE << >>)
    \o (IF cmd.state # Empty THEN <<"[System.State]">> ELSE << >>)
    \o (IF cmd.assignedTo # Empty THEN <<"[System.AssignedTo]">> ELSE << >>)

\* C10: the query buildWIQL made for the running work item list has one
\* WHERE, right after the SELECT part, and ends with the one
\* ORDER BY [System.ChangedDate] DESC; between them stand the clauses,
\* separated by AND with none at either end and none doubled; there is one
\* clause for the project and one for each filter given, in the order
\* project, type, state, assignee.  It is the query the command sends.
C10_WiqlClauses ==
    (cmd.name = "workitem list" /\ local # NoLocal) =>
        LET q == local.wiql
            b == WhereBody(local.wiql)
            ands == TopLevel(b, " AND ")
        IN /\ TopLevel(q, " WHERE ") = {2}
           /\ TopLevel(q, " ORDER BY [System.ChangedDate] DESC") = {Len(q)}
           /\ Len(b) > 0
           /\ \A i \in ands : i > 1 /\ i < Len(b) /\ (i + 1) \notin ands
           /\ Cardinality(ands) + 1
                 = 1 + Cardinality({f \in {"type", "state", "assignedTo"} :
                                       cmd[f] # Empty})
           /\ ClauseFields(b) = ExpectedFields
           /\ Len(calls) > 0 => calls[1].req.Body = JSONBody([query |-> q])

C10_Witness ==
    /\ cmd.name = "workitem list"
    /\ local # NoLocal
    /\ cmd.type = <<"B", "'", " AND ", "s">>
    /\ cmd.state = Empty
    /\ cmd.assignedTo = <<"@me">>
    /\ ClauseFields(WhereBody(local.wiql))
          = <<"[System.TeamProject]", "[System.WorkItemType]",
              "[System.AssignedTo]">>
    /\ Len(calls) = 1

\* the quotes of s stand in adjacent pairs only
RECURSIVE PairsOnly(_)
PairsOnly(s) ==
    IF s = << >> THEN TRUE
    ELSE IF Head(s) # "'" THEN PairsOnly(Tail(s))
    ELSE Len(s) >= 2 /\ s[2] = "'" /\ PairsOnly(SubSeq(s, 3, Len(s)))

\* s with every pair of quotes read as one quote
RECURSIVE Undouble(_)
Undouble(s) ==
    IF s = << >> THEN << >>
    ELSE IF Head(s) = "'" /\ Len(s) >= 2 /\ s[2] = "'"
    THEN <<"'">> \o Undouble(SubSeq(s, 3, Len(s)))
    ELSE <<Head(s)>> \o Undouble(Tail(s))

\* the k-th clause of a WHERE body
Clause(b, k) ==
    LET starts == ClauseStarts(b)
        from == CHOOSE i \in starts : Cardinality({j \in starts : j < i}) = k - 1
        later == {i \in starts : i > from}
    IN SubSeq(b, from, IF later = {} THEN Len(b) ELSE Min(later) - 2)

\* the value the running work item list compares a field with
FilterValue(field) ==
    CASE field = "[System.TeamProject]" -> local.project
      [] field = "[System.WorkItemType]" -> cmd.type
      [] field = "[System.State]" -> cmd.state
      [] field = "[System.AssignedTo]" -> cmd.assignedTo

\* C11: in the query of the running work item list every value other than
\* the @me macro stands as a literal between two quotes, in which quotes
\* occur in adjacent pairs only and which, with each pair read as one quote,
\* is the value that was given; so the literal is the value with every quote
\* doubled.
C11_QuotesDoubled ==
    (cmd.name = "workitem list" /\ local # NoLocal) =>
        LET b == WhereBody(local.wiql)
        IN \A k \in 1..Len(ExpectedFields) :
              LET c == Clause(b, k)
                  v == FilterValue(ExpectedFields[k])
                  lit == SubSeq(c, 4, Len(c) - 1)
              IN /\ Len(c) >= 3
                 /\ c[1] = ExpectedFields[k]
                 /\ c[2] = " = "
                 /\ ~(ExpectedFields[k] = "[System.AssignedTo]" /\ v = <<"@me">>) =>
                       /\ Len(c) >= 4
                       /\ c[3] = "'"
                       /\ c[Len(c)] = "'"
                       /\ PairsOnly(lit)
                       /\ Undouble(lit) = v
                       /\ Count(lit, "'") = 2 * Count(v, "'")
                       /\ Len(lit) = Len(v) + Count(v, "'")

C11_Witness ==
    /\ cmd.name = "workitem list"
    /\ local # NoLocal
    /\ local.project = <<"P", "'">>
    /\ cmd.type = <<"B", "'", " AND ", "s">>
    /\ cmd.state = Empty
    /\ cmd.assignedTo = <<"@me", "'", "'">>
    /\ Clause(WhereBody(local.wiql), 3)
          = <<"[System.AssignedTo]", " = ", "'", "@me", "'", "'", "'", "'", "'">>
    /\ Clause(WhereBody(local.wiql), 1)
          = <<"[System.TeamProject]", " = ", "'", "P", "'", "'", "'">>

\* C12: an assignee filter of exactly @me gives the clause
\* [System.AssignedTo] = @me, with no quote in it; any other assignee given
\* gives a literal between quotes with its own quotes doubled, also one that
\* only begins with @me; and no clause compares with the literal '@me'.
C12_MeIsAMacro ==
    (cmd.name = "workitem list" /\ local # NoLocal) =>
        LET b == WhereBody(local.wiql)
            n == Len(ExpectedFields)
            c == Clause(b, n)
        IN /\ cmd.assignedTo = <<"@me">> =>
                 /\ c = <<"[System.AssignedTo]", " = ", "@me">>
                 /\ Count(c, "'") = 0
           /\ (cmd.assignedTo # Empty /\ cmd.assignedTo # <<"@me">>) =>
                 /\ c[1] = "[System.AssignedTo]"
                 /\ c[3] = "'"
                 /\ c[Len(c)] = "'"
                 /\ Undouble(SubSeq(c, 4, Len(c) - 1)) = cmd.assignedTo
           /\ \A k \in 1..n :
                 Clause(b, k) # <<"[System.AssignedTo]", " = ", "'", "@me", "'">>
           /\ Count(local.wiql, "@me") = (IF cmd.assignedTo = Empty THEN 0 ELSE 1)

C12_Witness ==
    /\ cmd.name = "workitem list"
    /\ local # NoLocal
    /\ cmd.assignedTo = <<"@me">>
    /\ cmd.type # Empty
    /\ cmd.state # Empty
    /\ Clause(WhereBody(local.wiql), 4) = <<"[System.AssignedTo]", " = ", "@me">>
    /\ Len(calls) = 1
    /\ calls[1].req.Body = JSONBody([query |-> local.wiql])

\* the inputs of the running create or update, with the field each goes to,
\* in the order the handler looks at them
PatchInputs ==
    IF cmd.name = "workitem create"
    THEN << <<"/fields/System.Title", cmd.title>>,
            <<"/fields/System.Description", cmd.description>>,
            <<"/fields/System.AssignedTo", cmd.assignedTo>>,
            <<"/fields/System.AreaPath", cmd.areaPath>>,
            <<"/fields/System.IterationPath", cmd.iterationPath>> >>
    ELSE << <<"/fields/System.Title", cmd.title>>,
            <<"/fields/System.State", cmd.state>>,
            <<"/fields/System.AssignedTo", cmd.assignedTo>> >>

\* those of the inputs that were given
GivenInputs == SelectSeq(PatchInputs, LAMBDA p : p[2] # Empty)

\* C13: the patch a work item create or update has built holds one operation
\* for each input given, in the order title, description, assignee, area
\* path, iteration path (create) and title, state, assignee (update), and
\* none for an input left empty; its length is the number of optional inputs
\* given, plus one for the title on create; every operation is an add on
\* create and a replace on update; and it is the body of the request.
C13_PatchLength ==
    (cmd.name \in {"workitem create", "workitem update"} /\ local # NoLocal) =>
        LET fields == local.fields
            op == IF cmd.name = "workitem create" THEN "add" ELSE "replace"
            optional == IF cmd.name = "workitem create"
                        THEN Tail(PatchInputs) ELSE PatchInputs
        IN /\ Len(fields)
                 = Cardinality({i \in 1..Len(optional) : optional[i][2] # Empty})
                   + (IF cmd.name = "workitem create" THEN 1 ELSE 0)
           /\ Len(fields) = Len(GivenInputs)
           /\ \A i \in 1..Len(fields) :
                 /\ fields[i].Op = op
                 /\ fields[i].Path = <<GivenInputs[i][1]>>
                 /\ fields[i].Value = GivenInputs[i][2]
                 /\ fields[i].Value # Empty
           /\ Len(calls) > 0 => calls[1].req.Body = JSONBody(fields)

C13_Witness ==
    /\ cmd.name = "workitem create"
    /\ local # NoLocal
    /\ cmd.description = Empty
    /\ cmd.assignedTo # Empty
    /\ cmd.areaPath = Empty
    /\ cmd.iterationPath # Empty
    /\ Len(local.fields) = 3
    /\ local.fields[3].Path = <<"/fields/System.IterationPath">>
    /\ Len(calls) = 1
    /\ Len(calls[1].req.Body.json) = 3

\* the running command has got the list of repositories to resolve --repo in
Resolving ==
    /\ cmd.name \in {"pr list", "pr create"}
    /\ cmd.repo # Empty
    /\ Len(responses) >= 1
    /\ responses[1].err = NoError

\* two names are the same but for the case of their letters
SameName(a, b) ==
    /\ Len(a) = Len(b)
    /\ \A i \in 1..Len(a) : a[i] = b[i] \/ Fold(a[i]) = Fold(b[i])

\* C14: once the repositories are listed, the repository id the command goes
\* on with is the id of the first one listed whose name is the name given
\* but for case; where none is, the command has failed, after that one
\* request, with the error naming the repository and the project; a name that
\* only begins like the one given does not match; and the not-found error is
\* raised in no other case.
C14_FirstMatchWins ==
    /\ Resolving =>
          LET repos == responses[1].Value.repos
              same == {i \in 1..Len(repos) : SameName(repos[i].Name, cmd.repo)}
          IN /\ same # {} =>
                   /\ local.repoID = repos[Min(same)].ID
                   /\ err.kind # "notfound"
                   /\ pc = "exited" => Len(calls) = 2
                   /\ Len(calls) = 2 =>
                         Contains(calls[2].req.Path,
                                  <<"git/repositories/">> \o repos[Min(same)].ID
                                      \o <<"/pullrequests">>)
             /\ same = {} =>
                   /\ pc = "exited"
                   /\ Len(calls) = 1
                   /\ local.repoID = Empty
                   /\ err.kind = "notfound"
                   /\ err.msg = <<"repository \"">> \o cmd.repo
                                  \o <<"\" not found in project \"">>
                                  \o local.project \o <<"\"">>
                   /\ exitCode = 1
    /\ err.kind = "notfound" => Resolving

C14_Witness ==
    /\ Resolving
    /\ cmd.repo = <<"a", "L">>
    /\ Len(responses[1].Value.repos) = 2
    /\ responses[1].Value.repos[1].Name = <<"a", "l", "p">>
    /\ responses[1].Value.repos[2].Name = <<"a", "l">>
    /\ local.repoID = <<"R2">>
    /\ Len(calls) = 2

\* the ids text of a batch fetch for the first m of refs
IdsParam(refs, m) == Join([j \in 1..m |-> Itoa(refs[j])], <<",">>)

\* C15: a work item list sends the WIQL search first and at most one more
\* request, the batch fetch, which it sends only after the search was
\* answered and decoded without error and had returned n > 0 ids; the fetch
\* asks for the first min(top, n) of them in the order returned when top > 0
\* and for all n when top is 0; and a list that ends well after a search
\* that returned ids has made both requests.
C15_SearchThenFetch ==
    cmd.name = "workitem list" =>
        /\ Len(calls) <= 2
        /\ Len(calls) >= 1 =>
              /\ calls[1].req.Method = "POST"
              /\ Contains(calls[1].req.Path, <<"/_apis/", "wit/wiql">>)
              /\ calls[1].req.Body = JSONBody([query |-> local.wiql])
        /\ pc = "wiList_fetch" =>
              Len(calls) = 1 /\ responses[1].err = NoError
        /\ Len(calls) = 2 =>
              LET refs == responses[1].Value.refs
                  n == Len(refs)
                  m == IF cmd.top > 0 /\ cmd.top < n THEN cmd.top ELSE n
              IN /\ ~FailedCall(1)
                 /\ responses[1].err = NoError
                 /\ n > 0
                 /\ calls[2].req.Method = "GET"
                 /\ Contains(calls[2].req.Path, <<"/_apis", "/", "wit/workitems">>)
                 /\ SentQuery(2)[<<"ids">>] = <<IdsParam(refs, m)>>
                 /\ pc = "exited"
        /\ (pc = "exited" /\ err = NoError /\ Len(calls) = 1) =>
              Len(responses[1].Value.refs) = 0

C15_Witness ==
    /\ cmd.name = "workitem list"
    /\ cmd.top = 1
    /\ Len(calls) = 2
    /\ responses[1].Value.refs = <<9, 8>>
    /\ SentQuery(2)[<<"ids">>] = << <<"9">> >>
    /\ pc = "exited"
    /\ err = NoError

\* call i carries the patch document of a work item create or update
CarriesPatch(i) ==
    /\ cmd.name \in {"workitem create", "workitem update"}
    /\ calls[i].req.Body = JSONBody(local.fields)

\* C16: every request that carries the patch document of a work item create
\* or update is sent with content type application/json-patch+json, and
\* every other request, with or without a body, by do or by doRaw, with
\* application/json; the requests of a work item create and update are the
\* ones that carry a patch.
C16_ContentTypes ==
    \A i \in 1..Len(calls) :
        /\ CarriesPatch(i) =>
              /\ calls[i].req.ContentType = "application/json-patch+json"
              /\ calls[i].req.Method
                    = (IF cmd.name = "workitem create" THEN "POST" ELSE "PATCH")
        /\ ~CarriesPatch(i) => calls[i].req.ContentType = "application/json"
        /\ cmd.name \in {"workitem create", "workitem update"} => CarriesPatch(i)

C16_Witness ==
    /\ cmd.name = "workitem update"
    /\ Len(calls) = 1
    /\ CarriesPatch(1)
    /\ calls[1].req.Method = "PATCH"
    /\ calls[1].req.ContentType = "application/json-patch+json"
    /\ Len(local.fields) = 3

\* the commands that print the one record they got
RecordCommands ==
    {"workitem show", "workitem create", "workitem update", "pr show", "pr create"}

\* the format a printed record is in
Shown(line) ==
    IF Head(line) \in {"{\"id\": ", "{\"pullRequestId\": "} THEN "json"
    ELSE IF Count(line, "\t") > 0 THEN "plain"
    ELSE "table"

\* C17: the output format is json whenever --json is set, also with --plain;
\* plain when --plain is set without --json; without either flag the
\* configured output_format when there is one, and table when there is none.
\* A command that prints its record prints it in that format.
C17_OutputFormatPriority ==
    /\ jsonOutput => OutputFormat = "json"
    /\ (~jsonOutput /\ plainOutput) => OutputFormat = "plain"
    /\ (~jsonOutput /\ ~plainOutput /\ cfgOutputFormat # "") =>
          OutputFormat = cfgOutputFormat
    /\ (~jsonOutput /\ ~plainOutput /\ cfgOutputFormat = "") =>
          OutputFormat = "table"
    /\ (cmd.name \in RecordCommands /\ pc = "exited" /\ err = NoError) =>
          /\ Len(stdout) = 1
          /\ jsonOutput => Shown(stdout[1]) = "json"
          /\ (~jsonOutput /\ plainOutput) => Shown(stdout[1]) = "plain"
          /\ (~jsonOutput /\ ~plainOutput) =>
                Shown(stdout[1]) = (IF cfgOutputFormat # "" THEN cfgOutputFormat
                                    ELSE "table")

C17_Witness ==
    /\ cmd.name = "workitem show"
    /\ pc = "exited"
    /\ err = NoError
    /\ ~jsonOutput
    /\ plainOutput
    /\ cfgOutputFormat = "json"
    /\ OutputFormat = "plain"
    /\ Shown(stdout[1]) = "plain"

\* C18: nothing written to stdout or stderr holds the beginning of the
\* stored credential, and what auth status has printed is what it would have
\* printed with any other credential stored in place of this one.
C18_CredentialNotInOutput ==
    /\ keyring.found =>
          \A i \in 1..Len(stdout) :
              ~Contains(stdout[i], SubSeq(keyring.pat, 1, 2))
    /\ keyring.found =>
          \A i \in 1..Len(stderr) :
              ~Contains(stderr[i], SubSeq(keyring.pat, 1, 2))
    /\ (cmd.name = "auth status" /\ pc = "exited" /\ keyring.found) =>
          \A p \in PATs :
              stdout = AuthStatusOutput([found |-> TRUE, pat |-> p], OutputFormat)

\* the client of the running command is the one NewClient made of the
\* configured organization and the stored credential, and every request so
\* far was sent to its base address, with its credential and its API version
SameClientThroughout ==
    /\ client # NoClient =>
          /\ client.BaseURL
                = <<"https://dev.azure.com/">> \o organization \o <<"/_apis">>
          /\ client.PAT = keyring.pat
          /\ client.APIVersion = <<"7.1">>
    /\ \A i \in 1..Len(calls) :
          /\ client # NoClient
          /\ HasPrefix(calls[i].req.Path,
                       TrimSuffix(client.BaseURL, <<"/_apis">>))
          /\ calls[i].req.Authorization
                = [scheme |-> "Basic", userpass |-> <<":">> \o client.PAT]
          /\ SentQuery(i)[<<"api-version">>] = <<client.APIVersion>>
          /\ \A j \in 1..Len(calls) :
                calls[j].req.Authorization = calls[i].req.Authorization

\* C19: once a command has its client, no step of it changes the client's
\* BaseURL, PAT or APIVersion, whatever API operation the step calls; so all
\* the requests of one command go to the same base address with the same
\* credential and the same API version, those the client was made with.
C19_ClientImmutable ==
    /\ []SameClientThroughout
    /\ [][(client # NoClient /\ pc' # "idle") => client' = client]_vars

C19_Witness ==
    /\ cmd.name = "pr approve"
    /\ Len(calls) = 3
    /\ keyring.pat = <<"k", "e", "y">>
    /\ client = NewClient(organization, keyring.pat)
    /\ \A i \in 1..3 :
          calls[i].req.Authorization
             = [scheme |-> "Basic", userpass |-> <<":", "k", "e", "y">>]
    /\ calls[2].req.Mode = "do"
    /\ calls[3].req.Mode = "doRaw"

\* C20: a process that has exited has status 1 exactly when its command
\* returned an error, and then the error's text is the last line on stderr;
\* a round trip that failed, a response that was an error status or did not
\* decode, a repository that was not found, and a service command stopped
\* before its first request by a configuration or validation error have all
\* ended the process with status 1 and that error; so a process that exited
\* with status 0 has had no step fail.  Before the exit there is no status.
C20_ErrorsExitWithOne ==
    /\ pc # "exited" => exitCode = -1 /\ err = NoError
    /\ pc = "exited" =>
          /\ exitCode = (IF err # NoError THEN 1 ELSE 0)
          /\ err # NoError =>
                /\ Len(stderr) > 0
                /\ stderr[Len(stderr)] = <<"Error: ">> \o err.msg
                /\ err.kind \in {"config", "validation", "notfound",
                                 "transport", "api", "decode"}
    /\ \A i \in 1..Len(calls) :
          calls[i].failed =>
              pc = "exited" /\ exitCode = 1 /\ err.kind = "transport"
    /\ \A i \in 1..Len(responses) :
          responses[i].err # NoError =>
              /\ pc = "exited"
              /\ exitCode = 1
              /\ err.kind = responses[i].err.kind
              /\ err.kind \in {"api", "decode"}
    /\ (Resolving
        /\ \A i \in 1..Len(responses[1].Value.repos) :
              ~SameName(responses[1].Value.repos[i].Name, cmd.repo)) =>
          pc = "exited" /\ exitCode = 1 /\ err.kind = "notfound"
    /\ (cmd.name \in ServiceCommands /\ pc = "exited" /\ calls = << >>) =>
          exitCode = 1 /\ err.kind \in {"config", "validation"}
    /\ (cmd.name \in ServiceCommands
        /\ (Prelude(cmd.project).err # NoError
            \/ (cmd.name \in IdCommands /\ ~Atoi(cmd.arg).ok))) =>
          pc = "exited" /\ exitCode = 1

C20_Witness ==
    /\ cmd.name = "pr create"
    /\ pc = "exited"
    /\ Len(calls) = 2
    /\ ~FailedCall(1)
    /\ responses[2].err.kind = "decode"
    /\ err.kind = "decode"
    /\ exitCode = 1
    /\ stdout = << >>

\* C21: loading the configuration yields the output format "table" whenever
\* none is persisted, whether the file is missing or holds no output_format:
\* ado config get output_format, when it succeeds, then prints "table".
C21_LoadDefaultsToTable ==
    (/\ cmd.name = "config get"
     /\ pc = "exited"
     /\ err = NoError
     /\ cmd.key = "output_format"
     /\ cfgOutputFormat = "") =>
        stdout = << <<"table", "\n">> >>

\* the handler is about to call resolveRepoID
ResolveStep == pc \in {"prList_repo", "prCreate_repo"}

\* the step sends one request, GET the project's repositories, and what it
\* comes to is read off the answer to that request
FreshLookup ==
    /\ Len(calls') = Len(calls) + 1
    /\ calls'[Len(calls')].req.Method = "GET"
    /\ calls'[Len(calls')].req.Path
          = ParseURL(ProjectURL(client, local.project, <<"git/repositories">>)).Path
    /\ IF ~calls'[1].failed /\ responses'[1].err = NoError
       THEN LET repos == responses'[1].Value.repos
                same == {i \in 1..Len(repos) : SameName(repos[i].Name, cmd.repo)}
            IN IF same # {}
               THEN /\ pc' \in {"prList_list", "prCreate_post"}
                    /\ local'.repoID = repos[Min(same)].ID
               ELSE /\ pc' = "exited"
                    /\ err'.kind = "notfound"
       ELSE /\ pc' = "exited"
            /\ err'.kind \in {"transport", "api", "decode"}
            /\ local' = local

\* C22: there is no resolution cache.  A handler that comes to resolveRepoID,
\* in the first invocation or a later one, holds no request, no response and
\* no repository id; the resolution then sends exactly one request, the
\* listing of the repositories, and its result is the first match of the
\* answer to that request.
C22_NoResolutionCache ==
    /\ [](ResolveStep => (calls = << >> /\ responses = << >> /\ local.repoID = Empty))
    /\ [][ResolveStep => FreshLookup]_vars

C22_Witness ==
    /\ pc = "prCreate_post"
    /\ cmd.repo = <<"a", "L">>
    /\ Len(calls) = 1
    /\ responses[1].Value.repos[1].Name = <<"a", "l", "p">>
    /\ local.repoID = <<"R2">>

\* the path of a request to the project's API at path
ProjectPath(path) == ParseURL(ProjectURL(client, local.project, path)).Path

\* the repositories call 1 listed whose name is the one given, but for case
Listed ==
    IF Len(calls) >= 1 /\ ~calls[1].failed /\ responses[1].err = NoError
    THEN {i \in 1..Len(responses[1].Value.repos) :
             SameName(responses[1].Value.repos[i].Name, cmd.repo)}
    ELSE {}

EmptySearch ==
    /\ cmd.name = "workitem list"
    /\ Len(responses) >= 1
    /\ responses[1].err = NoError
    /\ Len(responses[1].Value.refs) = 0

\* C24: a work item list whose WIQL search succeeds with no reference has
\* ended with status 0 after that one request, having written "[]" to
\* stdout in the json format and "No work items found." to stderr in the
\* others; and GetWorkItems, given no id, sends no request and returns no
\* item and no error, whatever the network would do.
C24_EmptyResult ==
    /\ EmptySearch =>
          /\ pc = "exited"
          /\ Len(calls) = 1
          /\ err = NoError
          /\ exitCode = 0
          /\ IF OutputFormat = "json"
             THEN stdout = << <<"[]", "\n">> >> /\ stderr = << >>
             ELSE stdout = << >> /\ stderr = << <<"No work items found.", "\n">> >>
    /\ \A net \in Net({[items |-> << >>]}) :
          LET r == GetWorkItems(client, cfgProject, << >>, net)
          IN /\ r.sent = << >>
             /\ r.resps = << >>
             /\ r.err = NoError
             /\ r.value.items = << >>

C24_Witness ==
    /\ EmptySearch
    /\ pc = "exited"
    /\ stdout = << <<"[]", "\n">> >>
    /\ cmd.top = 1

\* C27: a pr list without --repo sends one request at most, the listing of
\* the project's pull requests, and resolves no repository.  With --repo the
\* first request lists the repositories and the only other one is the
\* listing of the pull requests of the repository found there; it is sent
\* only when the name was found, and a resolution that fails ends the command
\* in error after the first request.  A pr list that ends well has sent the
\* listing of the pull requests.
C27_ListAfterResolution ==
    cmd.name = "pr list" =>
        /\ cmd.repo = Empty =>
              /\ Len(calls) <= 1
              /\ local # NoLocal => local.repoID = Empty
              /\ pc # "prList_repo"
              /\ Len(calls) = 1 =>
                    /\ pc = "exited"
                    /\ calls[1].req.Method = "GET"
                    /\ calls[1].req.Path = ProjectPath(<<"git/pullrequests">>)
              /\ (pc = "exited" /\ err = NoError) => Len(calls) = 1
        /\ cmd.repo # Empty =>
              /\ Len(calls) <= 2
              /\ Len(calls) >= 1 =>
                    /\ calls[1].req.Method = "GET"
                    /\ calls[1].req.Path = ProjectPath(<<"git/repositories">>)
              /\ (Len(calls) >= 1 /\ Listed = {}) =>
                    (pc = "exited" /\ err # NoError /\ exitCode = 1
                        /\ Len(calls) = 1)
              /\ Len(calls) = 2 =>
                    /\ Listed # {}
                    /\ calls[2].req.Method = "GET"
                    /\ calls[2].req.Path
                          = ProjectPath(<<"git/repositories/">>
                                           \o responses[1].Value.repos[Min(Listed)].ID
                                           \o <<"/pullrequests">>)
              /\ (pc = "exited" /\ err = NoError) => Len(calls) = 2

C27_Witness ==
    /\ cmd.name = "pr list"
    /\ cmd.repo = <<"a", "L">>
    /\ pc = "exited"
    /\ err = NoError
    /\ Listed = {1, 2}
    /\ responses[1].Value.repos[1].ID = <<"R1">>
    /\ Len(calls) = 2
    /\ cmd.status # Empty

FormatNames == {"table", "json", "plain"}

\* the step runs a config set the code has to turn down: a key it does not
\* know, or an output format that is none of the three
InvalidSet ==
    /\ pc = "idle"
    /\ cmd'.name = "config set"
    /\ \/ cmd'.key \notin {"organization", "project", "output_format"}
       \/ /\ cmd'.key = "output_format"
          /\ cmd'.value \notin {<<f>> : f \in FormatNames}

ReportsAuthenticated ==
    \E i \in 1..Len(stdout) :
        \/ Contains(stdout[i], <<"{\"authenticated\": ", "true">>)
        \/ Contains(stdout[i], <<"Authenticated: yes (token: ">>)

\* the token a login was given: --pat, or else the line typed at the prompt
GivenPAT(c) == IF c.pat # Empty THEN c.pat ELSE c.stdin.text

\* C26: on a machine that began with an empty keyring, whatever logins and
\* logouts have run, auth status reports authenticated exactly when the auth
\* command that last succeeded was a login; a login whose token is empty
\* once trimmed fails and leaves the keyring as it was; and the keyring never
\* holds an empty token.
C26_LoginLogoutStatus ==
    /\ []((cmd.name = "auth status" /\ pc = "exited") =>
            (ReportsAuthenticated <=> lastAuth = "login"))
    /\ [](keyring.found => keyring.pat # Empty)
    /\ [][(pc = "idle" /\ cmd'.name = "auth login"
             /\ TrimSpace(GivenPAT(cmd')) = Empty) =>
            (err' # NoError /\ exitCode' = 1 /\ keyring' = keyring)]_vars

====
